---- MODULE Spec2Model ----
(***************************************************************************)
(* A model of MidiProcessor (src/midi_processor.py): the tempo table, the  *)
(* tick -> seconds conversion, the note extraction, the overlap analyzer   *)
(* and the overlap resolver.                                               *)
(*                                                                         *)
(* Time.  The code keeps seconds as floats.  Every seconds value of the    *)
(* model is the exact rational the float approximates, written as an       *)
(* integer number of units of 1 / (ticks_per_beat * 1000000) second, so    *)
(* that ticks * tempo (tempo in microseconds per beat) is a seconds value  *)
(* with no division.  One second is Second units, one millisecond is       *)
(* Millisecond units.                                                      *)
(*                                                                         *)
(* Objects.  Note records are Python dicts, which the resolver copies and  *)
(* mutates in place.  They live in heap (a sequence of records, the index  *)
(* is the identity of the dict) and a Python list of notes is a sequence   *)
(* of heap indices, so that aliasing and copying are told apart.           *)
(***************************************************************************)
EXTENDS Integers, Sequences, FiniteSets, TLC

VARIABLES
    pc,               \* position of the caller: what has run so far
    ticks_per_beat,   \* midi.ticks_per_beat of the loaded file
    tracks,           \* midi.tracks: a sequence of tracks, each a sequence of messages
    tempo_changes,    \* self.tempo_changes: sequence of <<tick, tempo>>
    original_tempo,   \* self.original_tempo (None before the analysis)
    detailed_tempos,  \* self.detailed_tempos: sequence of <<tick, tempo, seconds>>
    time_result,      \* the last tick -> seconds conversion asked for
    note_positions,   \* the list returned by the note extraction
    unmatched_count,  \* the number of unmatched note-starts the extraction warned about
    overlap_result,   \* the dict returned by the overlap analyzer
    heap,             \* the note dicts that exist, by identity
    arg_notes,        \* the caller's list handed to the resolver (heap indices)
    arg_heap,         \* the heap as it was when the resolver was called
    ret_notes,        \* the list the resolver returned (heap indices)
    call,             \* the entry point that ran, with its arguments
    new_midi,         \* the file _create_new_midi_with_exact_timing returned (None before)
    results,          \* the result dicts process_file has returned, in order
    written,          \* the output files written so far, in order
    velocity_percent, \* self.velocity_percent
    signals           \* the signals of WorkerThread emitted so far, in order

fileVars == <<ticks_per_beat, tracks>>
tempoVars == <<tempo_changes, original_tempo, detailed_tempos>>
extractVars == <<note_positions, unmatched_count>>
resolverVars == <<heap, arg_notes, arg_heap, ret_notes, call>>
outputVars == <<new_midi, results, written, velocity_percent, signals>>

vars == <<pc, fileVars, tempoVars, time_result, extractVars, overlap_result, resolverVars,
          outputVars>>

----------------------------------------------------------------------------
(* Bounds of the model and values of the inputs it draws.                  *)

\* midi.ticks_per_beat of every file of the model
TicksPerBeat == 480
\* at most this many tracks in a file
MaxTracks == 2
\* at most this many messages in a file of the tempo specification
MaxTempoMsgs == 3
\* no message of a tempo file lies after this absolute tick
MaxTempoTick == 2000

None == -1

\* The default tempo the code falls back to (120 BPM).
DefaultTempo == 500000

Second == TicksPerBeat * 1000000
Millisecond == TicksPerBeat * 1000

----------------------------------------------------------------------------
(* Python helpers.                                                         *)

\* list.sort(key=...) and sorted(..., key=...): a stable sort, ascending.
StableSortBy(s, Key(_)) ==
    LET n == Len(s)
        Rank(i) == Cardinality({j \in 1..n : \/ Key(s[j]) < Key(s[i])
                                             \/ (Key(s[j]) = Key(s[i]) /\ j < i)}) + 1
    IN  [p \in 1..n |-> s[CHOOSE i \in 1..n : Rank(i) = p]]

RECURSIVE Concat(_)
Concat(ss) == IF ss = <<>> THEN <<>> ELSE Head(ss) \o Concat(Tail(ss))

\* a mido message; the fields a message type does not carry are 0
Msg(type, time, note, channel, velocity, tempo) ==
    [type |-> type, time |-> time, note |-> note, channel |-> channel,
     velocity |-> velocity, tempo |-> tempo]

SetTempo(time, tempo) == Msg("set_tempo", time, 0, 0, 0, tempo)
NoteOn(time, note, channel, velocity) == Msg("note_on", time, note, channel, velocity, 0)
NoteOff(time, note, channel) == Msg("note_off", time, note, channel, 0, 0)

ControlChange(time, channel) == Msg("control_change", time, 0, channel, 0, 0)
TimeSignature(time) == Msg("time_signature", time, 0, 0, 0, 0)

\* the message types the code calls control messages
ControlTypes ==
    {"control_change", "pitchwheel", "program_change", "aftertouch", "polytouch", "sysex"}

\* the meta message types the retimer leaves out
MarkerTypes == {"marker", "text", "cue_marker", "lyrics"}

\* absolute tick of the k-th message of a track: the running sum of msg.time
RECURSIVE AbsoluteTick(_, _)
AbsoluteTick(track, k) == IF k = 0 THEN 0 ELSE AbsoluteTick(track, k - 1) + track[k].time

TrackLength(track) == AbsoluteTick(track, Len(track))

\* the indices 1..n that satisfy P, in ascending order
IndicesWhere(n, P(_)) ==
    LET S == {k \in 1..n : P(k)}
    IN  [p \in 1..Cardinality(S) |-> CHOOSE k \in S : Cardinality({j \in S : j < k}) = p - 1]

----------------------------------------------------------------------------
(* TempoMap: _analyze_tempo and the tick -> seconds conversion.            *)

\* _ticks_to_seconds: (ticks * tempo) / (ticks_per_beat * 1000000) seconds,
\* which is ticks * tempo units
TicksToSeconds(ticks, tempo, tpb) == ticks * tempo

\* Python round(n / d) for n >= 0 and d > 0: the nearest integer, a tie goes to
\* the even one
RoundHalfEven(n, d) ==
    LET q == n \div d
        r == n % d
    IN  IF 2 * r < d THEN q
        ELSE IF 2 * r > d THEN q + 1
        ELSE IF q % 2 = 0 THEN q ELSE q + 1

\* SecondsToTicksPrecise that takes the default tempo for the tempo it is given
SecondsToTicksPreciseDefaultTempo(seconds, tempo, tpb) == RoundHalfEven(seconds, DefaultTempo)

\* _seconds_to_ticks_precise: round(seconds / (tempo / 1000000.0) * ticks_per_beat),
\* which is round(units / tempo)
SecondsToTicksPrecise(seconds, tempo, tpb) == RoundHalfEven(seconds, tempo)

\* the segment of the precise variant: beats * seconds_per_beat with
\* beats = tick_duration / ticks_per_beat, seconds_per_beat = tempo / 1000000.0
PreciseSegment(tick_duration, tempo, tpb) == tick_duration * tempo

\* the for loop of _calculate_absolute_time_with_tempo_changes from entry i on
RECURSIVE AbsoluteTimeLoop(_, _, _, _, _, _, _)
AbsoluteTimeLoop(absolute_ticks, sorted, tpb, i, total_seconds, last_tick_pos, last_tempo) ==
    IF i > Len(sorted)
    THEN total_seconds + TicksToSeconds(absolute_ticks - last_tick_pos, last_tempo, tpb)
    ELSE IF absolute_ticks <= sorted[i][1]
    THEN total_seconds + TicksToSeconds(absolute_ticks - last_tick_pos, last_tempo, tpb)
    ELSE AbsoluteTimeLoop(absolute_ticks, sorted, tpb, i + 1,
             total_seconds + TicksToSeconds(sorted[i][1] - last_tick_pos, last_tempo, tpb),
             sorted[i][1], sorted[i][2])

\* _calculate_absolute_time_with_tempo_changes
CalculateAbsoluteTime(absolute_ticks, changes, tpb) ==
    IF changes = <<>> THEN 0
    ELSE LET sorted == StableSortBy(changes, LAMBDA c : c[1])
         IN  AbsoluteTimeLoop(absolute_ticks, sorted, tpb, 1, 0, 0, sorted[1][2])

\* PreciseTimeLoop that never takes over the tempo of a change it has passed
RECURSIVE PreciseTimeLoopFirstTempo(_, _, _, _, _, _, _)
PreciseTimeLoopFirstTempo(absolute_ticks, sorted, tpb, i, total_seconds, last_tick_pos, last_tempo) ==
    IF i > Len(sorted)
    THEN total_seconds + PreciseSegment(absolute_ticks - last_tick_pos, last_tempo, tpb)
    ELSE IF absolute_ticks <= sorted[i][1]
    THEN total_seconds + PreciseSegment(absolute_ticks - last_tick_pos, last_tempo, tpb)
    ELSE PreciseTimeLoopFirstTempo(absolute_ticks, sorted, tpb, i + 1,
             total_seconds + PreciseSegment(sorted[i][1] - last_tick_pos, last_tempo, tpb),
             sorted[i][1], last_tempo)

\* the for loop of _calculate_absolute_time_with_tempo_changes_precise from entry i on
RECURSIVE PreciseTimeLoop(_, _, _, _, _, _, _)
PreciseTimeLoop(absolute_ticks, sorted, tpb, i, total_seconds, last_tick_pos, last_tempo) ==
    IF i > Len(sorted)
    THEN total_seconds + PreciseSegment(absolute_ticks - last_tick_pos, last_tempo, tpb)
    ELSE IF absolute_ticks <= sorted[i][1]
    THEN total_seconds + PreciseSegment(absolute_ticks - last_tick_pos, last_tempo, tpb)
    ELSE PreciseTimeLoop(absolute_ticks, sorted, tpb, i + 1,
             total_seconds + PreciseSegment(sorted[i][1] - last_tick_pos, last_tempo, tpb),
             sorted[i][1], sorted[i][2])

\* _calculate_absolute_time_with_tempo_changes_precise
CalculateAbsoluteTimePrecise(absolute_ticks, changes, tpb) ==
    IF changes = <<>> THEN 0
    ELSE LET sorted == StableSortBy(changes, LAMBDA c : c[1])
         IN  PreciseTimeLoop(absolute_ticks, sorted, tpb, 1, 0, 0, sorted[1][2])

\* the set_tempo events of track i (0-based), as <<absolute tick, tempo, track>>
TrackTempoEvents(trks, i) ==
    LET track == trks[i + 1]
        at == IndicesWhere(Len(track), LAMBDA k : track[k].type = "set_tempo")
    IN  [p \in 1..Len(at) |-> <<AbsoluteTick(track, at[p]), track[at[p]].tempo, i>>]

\* all_tempo_events before the sort: track after track, each in message order
CollectedTempoEvents(trks) ==
    Concat([t \in 1..Len(trks) |-> TrackTempoEvents(trks, t - 1)])

\* all_tempo_events after all_tempo_events.sort(key=lambda x: x[0])
AllTempoEvents(trks) == StableSortBy(CollectedTempoEvents(trks), LAMBDA e : e[1])

HasNoteEvents(trks) ==
    \E t \in 1..Len(trks) : \E k \in 1..Len(trks[t]) :
        trks[t][k].type = "note_on" /\ trks[t][k].velocity > 0

\* The print of every set_tempo event divides 60000000 by msg.tempo and, through
\* _calculate_measure_beat, the tick by ticks_per_beat: a ZeroDivisionError
\* inside the scan, before anything but the reset of the three fields.
AnalyzeRaisesInScan(trks, tpb) ==
    \E e \in 1..Len(CollectedTempoEvents(trks)) :
        CollectedTempoEvents(trks)[e][2] = 0 \/ tpb = 0

\* With no tempo event the scan passes; the check of the first note divides by
\* ticks_per_beat after the default table has been stored.
AnalyzeRaisesAtFirstNote(trks, tpb) ==
    ~AnalyzeRaisesInScan(trks, tpb) /\ tpb = 0 /\ HasNoteEvents(trks)

\* self.tempo_changes when _analyze_tempo returns
AnalyzedTempoChanges(trks) ==
    LET all == AllTempoEvents(trks)
        pairs == [k \in 1..Len(all) |-> <<all[k][1], all[k][2]>>]
    IN  IF all = <<>> THEN << <<0, DefaultTempo>> >>
        ELSE IF all[1][1] > 0 THEN << <<0, all[1][2]>> >> \o pairs
        ELSE pairs

\* self.original_tempo when _analyze_tempo returns
AnalyzedOriginalTempo(trks) ==
    IF AllTempoEvents(trks) = <<>> THEN DefaultTempo ELSE AllTempoEvents(trks)[1][2]

\* self.detailed_tempos when _analyze_tempo returns, without the measure:beat
\* text: every entry of the (completed) event list with its seconds, computed
\* over the prefix of the list that ends with it
AnalyzedDetailedTempos(trks, tpb) ==
    LET all == AllTempoEvents(trks)
        events == IF all = <<>> THEN <<>>
                  ELSE IF all[1][1] > 0 THEN << <<0, all[1][2], -1>> >> \o all
                  ELSE all
        prefix(idx) == [k \in 1..idx |-> <<events[k][1], events[k][2]>>]
    IN  IF all = <<>> THEN << <<0, DefaultTempo, 0>> >>
        ELSE [idx \in 1..Len(events) |->
                <<events[idx][1], events[idx][2],
                  CalculateAbsoluteTime(events[idx][1], prefix(idx), tpb)>>]

----------------------------------------------------------------------------
(* The state after MidiProcessor() and the file being loaded.              *)

NoFile ==
    /\ ticks_per_beat = TicksPerBeat
    /\ tracks = <<>>

Constructed ==
    /\ tempo_changes = <<>>
    /\ original_tempo = None
    /\ detailed_tempos = <<>>

NothingReturned ==
    /\ time_result = <<>>
    /\ note_positions = <<>>
    /\ unmatched_count = None
    /\ overlap_result = <<>>
    /\ heap = <<>>
    /\ arg_notes = <<>>
    /\ arg_heap = <<>>
    /\ ret_notes = <<>>
    /\ call = <<>>
    /\ new_midi = None
    /\ results = <<>>
    /\ written = <<>>
    /\ velocity_percent = 80
    /\ signals = <<>>

Init ==
    /\ pc = "build"
    /\ NoFile
    /\ Constructed
    /\ NothingReturned

MessageCount == Len(Concat(tracks))

\* the file gets one more (empty) track
NewTrack ==
    /\ pc = "build"
    /\ Len(tracks) < MaxTracks
    /\ tracks' = Append(tracks, <<>>)
    /\ UNCHANGED <<pc, ticks_per_beat, tempoVars, time_result, extractVars,
                   overlap_result, resolverVars>>
    /\ UNCHANGED outputVars

\* the last track of the file gets one more message
AppendTo(msgs, maxMsgs, maxTick) ==
    /\ pc = "build"
    /\ Len(tracks) > 0
    /\ MessageCount < maxMsgs
    /\ \E m \in msgs :
          /\ TrackLength(tracks[Len(tracks)]) + m.time <= maxTick
          /\ tracks' = [tracks EXCEPT ![Len(tracks)] = Append(@, m)]
    /\ UNCHANGED <<pc, ticks_per_beat, tempoVars, time_result, extractVars,
                   overlap_result, resolverVars>>
    /\ UNCHANGED outputVars

\* The messages of a file of the tempo specification: tempo events (0 is a value
\* a set_tempo event can carry) and a note that moves the tick cursor.
TempoDeltas == {0, 1000}
TempoValues == {0, 250000, 500000, 1000000}
TempoMsgs ==
    {SetTempo(d, t) : d \in TempoDeltas, t \in TempoValues}
        \cup {NoteOn(1000, 60, 0, 100)}

AppendTempoMsg == AppendTo(TempoMsgs, MaxTempoMsgs, MaxTempoTick)

\* self._analyze_tempo(midi)
AnalyzeTempo ==
    /\ pc = "build"
    /\ IF AnalyzeRaisesInScan(tracks, ticks_per_beat)
       THEN /\ pc' = "error"
            /\ tempo_changes' = <<>>
            /\ original_tempo' = None
            /\ detailed_tempos' = <<>>
       ELSE /\ pc' = IF AnalyzeRaisesAtFirstNote(tracks, ticks_per_beat)
                     THEN "error" ELSE "analyzed"
            /\ tempo_changes' = AnalyzedTempoChanges(tracks)
            /\ original_tempo' = AnalyzedOriginalTempo(tracks)
            /\ detailed_tempos' = AnalyzedDetailedTempos(tracks, ticks_per_beat)
    /\ UNCHANGED <<fileVars, time_result, extractVars, overlap_result, resolverVars>>
    /\ UNCHANGED outputVars

\* the ticks the conversion is asked for
ProbeTicks == {0, 1, 999, 1000, 1001, 1999, 2000, 2001, 2100}

\* a tick -> seconds conversion against the table of the file, by both variants
ConvertTick ==
    /\ pc = "analyzed"
    /\ \E t \in ProbeTicks :
          time_result' =
              [ticks |-> t,
               seconds |-> CalculateAbsoluteTime(t, tempo_changes, ticks_per_beat),
               precise |-> CalculateAbsoluteTimePrecise(t, tempo_changes, ticks_per_beat)]
    /\ UNCHANGED <<pc, fileVars, tempoVars, extractVars, overlap_result, resolverVars>>
    /\ UNCHANGED outputVars

NextTempo == NewTrack \/ AppendTempoMsg \/ AnalyzeTempo \/ ConvertTick

SpecTempo == Init /\ [][NextTempo]_vars

----------------------------------------------------------------------------
(* NoteIntervalExtractor: _collect_note_positions and                      *)
(* collect_multitrack_note_positions.                                      *)

IsNoteStart(msg) == msg.type = "note_on" /\ msg.velocity > 0
IsNoteStop(msg) == msg.type = "note_off" \/ (msg.type = "note_on" /\ msg.velocity = 0)
NoteKey(msg) == <<msg.note, msg.channel>>

\* active_notes = {}
EmptyDict == [key \in {} |-> <<>>]

\* active_notes[note_key].append(start_info), the list created when the key is new
PushStart(active, key, info) ==
    IF key \in DOMAIN active
    THEN [active EXCEPT ![key] = Append(@, info)]
    ELSE [k \in DOMAIN active \cup {key} |-> IF k = key THEN <<info>> ELSE active[k]]

\* note_key in active_notes and active_notes[note_key]
HasPending(active, key) == key \in DOMAIN active /\ active[key] # <<>>

\* PopStart that takes the newest pending start: list.pop() instead of pop(0)
PopStartNewest(active, key) ==
    LET n == Len(active[key])
        rest == SubSeq(active[key], 1, n - 1)
    IN  [info |-> active[key][n],
         active |-> IF rest = <<>>
                    THEN [k \in DOMAIN active \ {key} |-> active[k]]
                    ELSE [active EXCEPT ![key] = rest]]

\* start_info = active_notes[note_key].pop(0), and the key deleted once its list
\* is empty
PopStart(active, key) ==
    LET rest == Tail(active[key])
    IN  [info |-> Head(active[key]),
         active |-> IF rest = <<>>
                    THEN [k \in DOMAIN active \ {key} |-> active[k]]
                    ELSE [active EXCEPT ![key] = rest]]

\* the dict appended for a matched pair; collect_multitrack_note_positions adds
\* the key 'original_track'
NoteInfo(track_idx, msg, info, end_tick, changes, tpb, multi) ==
    LET start_seconds == CalculateAbsoluteTimePrecise(info.start_tick, changes, tpb)
        end_seconds == CalculateAbsoluteTimePrecise(end_tick, changes, tpb)
        note == [track |-> track_idx,
                 note |-> msg.note,
                 channel |-> msg.channel,
                 velocity |-> info.velocity,
                 start_tick |-> info.start_tick,
                 end_tick |-> end_tick,
                 start_seconds |-> start_seconds,
                 end_seconds |-> end_seconds,
                 duration_ticks |-> end_tick - info.start_tick,
                 duration_seconds |-> end_seconds - start_seconds]
    IN  IF multi THEN [original_track |-> track_idx] @@ note ELSE note

\* the loop over the messages of one track, from message k on
RECURSIVE ScanTrack(_, _, _, _, _, _, _, _)
ScanTrack(track, track_idx, changes, tpb, multi, k, active, out) ==
    IF k > Len(track) THEN [active |-> active, notes |-> out]
    ELSE LET msg == track[k]
             absolute_time_ticks == AbsoluteTick(track, k)
             key == NoteKey(msg)
         IN  IF IsNoteStart(msg)
             THEN ScanTrack(track, track_idx, changes, tpb, multi, k + 1,
                      PushStart(active, key,
                          [start_tick |-> absolute_time_ticks, velocity |-> msg.velocity]),
                      out)
             ELSE IF IsNoteStop(msg) /\ HasPending(active, key)
             THEN LET popped == PopStart(active, key)
                  IN  ScanTrack(track, track_idx, changes, tpb, multi, k + 1,
                          popped.active,
                          Append(out, NoteInfo(track_idx, msg, popped.info,
                                               absolute_time_ticks, changes, tpb, multi)))
             ELSE ScanTrack(track, track_idx, changes, tpb, multi, k + 1, active, out)

\* the loop over the tracks, from track t (1-based) on: active_notes starts empty
\* in every track, the notes accumulate, and the active_notes left over is that of
\* the last track
RECURSIVE ScanTracks(_, _, _, _, _, _, _)
ScanTracks(trks, changes, tpb, multi, t, active, out) ==
    IF t > Len(trks) THEN [active |-> active, notes |-> out]
    ELSE LET scanned == ScanTrack(trks[t], t - 1, changes, tpb, multi, 1, EmptyDict, out)
         IN  ScanTracks(trks, changes, tpb, multi, t + 1, scanned.active, scanned.notes)

\* sum(len(stack) for stack in active_notes.values())
RECURSIVE PendingCount(_)
PendingCount(active) ==
    IF DOMAIN active = {} THEN 0
    ELSE LET key == CHOOSE k \in DOMAIN active : TRUE
         IN  Len(active[key]) + PendingCount([k \in DOMAIN active \ {key} |-> active[k]])

\* _collect_note_positions: the sorted notes and the unmatched count it warns
\* about, taken from the active_notes the loop over the tracks leaves behind
CollectNotePositionsOf(trks, changes, tpb) ==
    LET scanned == ScanTracks(trks, changes, tpb, FALSE, 1, EmptyDict, <<>>)
    IN  [notes |-> StableSortBy(scanned.notes, LAMBDA n : n.start_seconds),
         unmatched |-> PendingCount(scanned.active)]

\* the second loop of collect_multitrack_note_positions: the unmatched starts of
\* the tracks t.. summed
RECURSIVE TotalUnmatched(_, _, _, _)
TotalUnmatched(trks, changes, tpb, t) ==
    IF t > Len(trks) THEN 0
    ELSE PendingCount(ScanTrack(trks[t], t - 1, changes, tpb, TRUE, 1, EmptyDict, <<>>).active)
            + TotalUnmatched(trks, changes, tpb, t + 1)

\* collect_multitrack_note_positions
CollectMultitrackOf(trks, changes, tpb) ==
    LET scanned == ScanTracks(trks, changes, tpb, TRUE, 1, EmptyDict, <<>>)
    IN  [notes |-> StableSortBy(scanned.notes, LAMBDA n : n.start_seconds),
         unmatched |-> TotalUnmatched(trks, changes, tpb, 1)]

----------------------------------------------------------------------------
(* The extraction specification: a file of note events is loaded, analyzed  *)
(* and its note intervals are extracted by either extractor.                *)

\* at most this many messages in a file of the extraction specification
MaxNoteMsgs == 4
\* no message of such a file lies after this absolute tick
MaxNoteTick == 40

NoteDeltas == {0, 10}
\* starts and stops of pitch 60 (a stop as note_off or as note_on with velocity
\* 0) and of pitch 62, all on channel 0
NoteMsgs ==
    {NoteOn(d, 60, 0, 100) : d \in NoteDeltas}
        \cup {NoteOn(d, 60, 0, 0) : d \in NoteDeltas}
        \cup {NoteOff(d, 60, 0) : d \in NoteDeltas}
        \cup {NoteOn(d, 62, 0, 100) : d \in NoteDeltas}
        \cup {NoteOff(d, 62, 0) : d \in NoteDeltas}

AppendNoteMsg == AppendTo(NoteMsgs, MaxNoteMsgs, MaxNoteTick)

\* some stop of the file closes a start: the extractor converts its ticks, which
\* divides by ticks_per_beat
SomePairMatched(trks) ==
    ScanTracks(trks, << <<0, DefaultTempo>> >>, 1, FALSE, 1, EmptyDict, <<>>).notes # <<>>

\* note_positions = self._collect_note_positions(midi).  With no track at all the
\* name active_notes is unbound at the unmatched count (UnboundLocalError).
CollectNotePositions ==
    /\ pc = "analyzed"
    /\ IF Len(tracks) = 0 \/ (ticks_per_beat = 0 /\ SomePairMatched(tracks))
       THEN /\ pc' = "error"
            /\ UNCHANGED extractVars
       ELSE LET got == CollectNotePositionsOf(tracks, tempo_changes, ticks_per_beat)
            IN  /\ pc' = "collected"
                /\ note_positions' = got.notes
                /\ unmatched_count' = got.unmatched
    /\ UNCHANGED <<fileVars, tempoVars, time_result, overlap_result, resolverVars>>
    /\ UNCHANGED outputVars

\* all_notes = self.collect_multitrack_note_positions(midi)
CollectMultitrackNotePositions ==
    /\ pc = "analyzed"
    /\ IF ticks_per_beat = 0 /\ SomePairMatched(tracks)
       THEN /\ pc' = "error"
            /\ UNCHANGED extractVars
       ELSE LET got == CollectMultitrackOf(tracks, tempo_changes, ticks_per_beat)
            IN  /\ pc' = "collected"
                /\ note_positions' = got.notes
                /\ unmatched_count' = got.unmatched
    /\ UNCHANGED <<fileVars, tempoVars, time_result, overlap_result, resolverVars>>
    /\ UNCHANGED outputVars

NextExtract ==
    \/ NewTrack
    \/ AppendNoteMsg
    \/ AnalyzeTempo
    \/ CollectNotePositions
    \/ CollectMultitrackNotePositions

SpecExtract == Init /\ [][NextExtract]_vars

----------------------------------------------------------------------------
(* OverlapAnalyzer: detect_multitrack_overlaps and detect_midi_overlaps.    *)

Min(a, b) == IF a < b THEN a ELSE b
Max(a, b) == IF a > b THEN a ELSE b

\* the pairs <<i, j>> with i < j <= n that satisfy P, in the order of the two
\* nested loops: for i in range(n): for j in range(i + 1, n)
PairsWhere(n, P(_, _)) ==
    LET I(q) == ((q - 1) \div n) + 1
        J(q) == ((q - 1) % n) + 1
        at == IndicesWhere(n * n, LAMBDA q : I(q) < J(q) /\ P(I(q), J(q)))
    IN  [p \in 1..Len(at) |-> <<I(at[p]), J(at[p])>>]

\* the test of both analyzers: the open time ranges intersect
RangesOverlap(start1, end1, start2, end2) == start1 < end2 /\ start2 < end1

\* one overlap_detail of detect_multitrack_overlaps (without the texts)
OverlapDetail(note1, note2) ==
    LET overlap_start == Max(note1.start_seconds, note2.start_seconds)
        overlap_end == Min(note1.end_seconds, note2.end_seconds)
    IN  [note1 |-> note1,
         note2 |-> note2,
         overlap_start |-> overlap_start,
         overlap_end |-> overlap_end,
         overlap_duration |-> overlap_end - overlap_start,
         same_track |-> note1.original_track = note2.original_track,
         same_note |-> note1.note = note2.note,
         same_channel |-> note1.channel = note2.channel]

\* overlap_details: one entry for every pair of all_notes the test accepts
OverlapDetails(all_notes) ==
    LET pairs == PairsWhere(Len(all_notes),
                     LAMBDA i, j : RangesOverlap(all_notes[i].start_seconds,
                                                 all_notes[i].end_seconds,
                                                 all_notes[j].start_seconds,
                                                 all_notes[j].end_seconds))
    IN  [p \in 1..Len(pairs) |-> OverlapDetail(all_notes[pairs[p][1]], all_notes[pairs[p][2]])]

\* the dict detect_multitrack_overlaps returns from its except branch
MultitrackError ==
    [fn |-> "detect_multitrack_overlaps", error |-> TRUE, has_overlap |-> FALSE,
     total_overlaps |-> 0, same_track_overlaps |-> 0, cross_track_overlaps |-> 0,
     overlap_details |-> <<>>]

\* the dict detect_multitrack_overlaps returns for a file it could analyze; the
\* key 'all_notes' is there only when there are notes, and 'overlaps' holds one
\* text per overlap_detail
MultitrackResult(all_notes) ==
    LET details == OverlapDetails(all_notes)
        same == Cardinality({p \in 1..Len(details) : details[p].same_track})
        cross == Cardinality({p \in 1..Len(details) : ~details[p].same_track})
        counts == [fn |-> "detect_multitrack_overlaps", error |-> FALSE,
                   has_overlap |-> Len(details) > 0,
                   total_overlaps |-> Len(details),
                   same_track_overlaps |-> same,
                   cross_track_overlaps |-> cross,
                   overlap_details |-> details]
    IN  IF all_notes = <<>> THEN counts ELSE [all_notes |-> all_notes] @@ counts

\* _format_time: the digits of "MM:SS.cc" as <<minutes, seconds, hundredths>>.
\* total_seconds is ticks * tempo units, a second is ticks_per_beat * 1000000.
FormatTime(ticks, tpb, tempo) ==
    LET total_seconds == ticks * tempo
        second == tpb * 1000000
    IN  <<(total_seconds \div second) \div 60,
          (total_seconds \div second) % 60,
          (total_seconds % second) \div (second \div 100)>>

\* the loop of detect_midi_overlaps over the messages of a track, from message k
\* on: a start appends an open note, a stop closes the first open note of its
\* channel and pitch
RECURSIVE ActiveNotesOf(_, _, _)
ActiveNotesOf(track, k, active_notes) ==
    IF k > Len(track) THEN active_notes
    ELSE LET msg == track[k]
             current_time == AbsoluteTick(track, k)
             open == {i \in 1..Len(active_notes) :
                         /\ active_notes[i].channel = msg.channel
                         /\ active_notes[i].note = msg.note
                         /\ active_notes[i].end = None}
         IN  IF IsNoteStart(msg)
             THEN ActiveNotesOf(track, k + 1,
                      Append(active_notes, [channel |-> msg.channel, note |-> msg.note,
                                            start |-> current_time, end |-> None]))
             ELSE IF IsNoteStop(msg) /\ open # {}
             THEN LET first == CHOOSE i \in open : \A o \in open : i <= o
                  IN  ActiveNotesOf(track, k + 1,
                          [active_notes EXCEPT ![first].end = current_time])
             ELSE ActiveNotesOf(track, k + 1, active_notes)

\* the overlap texts of one track, in the order of the nested loops
TrackOverlapInfos(track, tpb, tempo) ==
    LET active_notes == ActiveNotesOf(track, 1, <<>>)
        pairs == PairsWhere(Len(active_notes),
                     LAMBDA i, j : /\ active_notes[i].end # None
                                   /\ active_notes[j].end # None
                                   /\ RangesOverlap(active_notes[i].start, active_notes[i].end,
                                                    active_notes[j].start, active_notes[j].end))
    IN  [p \in 1..Len(pairs) |->
            LET note1 == active_notes[pairs[p][1]]
                note2 == active_notes[pairs[p][2]]
            IN  <<FormatTime(Max(note1.start, note2.start), tpb, tempo),
                  FormatTime(Min(note1.end, note2.end), tpb, tempo)>>]

\* if overlap_info not in overlaps: overlaps.append(overlap_info)
RECURSIVE AppendNew(_, _)
AppendNew(overlaps, infos) ==
    IF infos = <<>> THEN overlaps
    ELSE AppendNew(IF \E i \in 1..Len(overlaps) : overlaps[i] = Head(infos)
                   THEN overlaps ELSE Append(overlaps, Head(infos)),
                   Tail(infos))

\* the dict detect_midi_overlaps returns: tempo is the first set_tempo of the
\* merged file or 500000, the texts of all tracks go to one list
MidiOverlapsResult(trks, tpb) ==
    LET tempo == IF AllTempoEvents(trks) = <<>> THEN 500000 ELSE AllTempoEvents(trks)[1][2]
        infos == Concat([t \in 1..Len(trks) |-> TrackOverlapInfos(trks[t], tpb, tempo)])
        overlaps == AppendNew(<<>>, infos)
    IN  IF infos # <<>> /\ tpb = 0
        THEN [fn |-> "detect_midi_overlaps", error |-> TRUE, has_overlap |-> FALSE,
              overlaps |-> <<>>]
        ELSE [fn |-> "detect_midi_overlaps", error |-> FALSE,
              has_overlap |-> overlaps # <<>>, overlaps |-> overlaps]

----------------------------------------------------------------------------
(* The analyzer specification: a file of note events on two channels is    *)
(* loaded, analyzed and handed to either analyzer.                         *)

\* at most this many messages in a file of the analyzer specification
MaxDetectMsgs == 4

\* starts and stops of pitch 60 on channel 0 and of pitch 62 on channel 1
DetectMsgs ==
    {NoteOn(d, 60, 0, 100) : d \in NoteDeltas}
        \cup {NoteOff(d, 60, 0) : d \in NoteDeltas}
        \cup {NoteOn(d, 62, 1, 100) : d \in NoteDeltas}
        \cup {NoteOff(d, 62, 1) : d \in NoteDeltas}

AppendDetectMsg == AppendTo(DetectMsgs, MaxDetectMsgs, MaxNoteTick)

\* overlap_result = self.detect_multitrack_overlaps(input_file): the file is
\* loaded and analyzed again, which sets the tempo fields again
DetectMultitrackOverlaps ==
    /\ pc = "analyzed"
    /\ pc' = "detected"
    /\ IF AnalyzeRaisesInScan(tracks, ticks_per_beat)
       THEN /\ tempo_changes' = <<>>
            /\ original_tempo' = None
            /\ detailed_tempos' = <<>>
            /\ overlap_result' = MultitrackError
       ELSE /\ tempo_changes' = AnalyzedTempoChanges(tracks)
            /\ original_tempo' = AnalyzedOriginalTempo(tracks)
            /\ detailed_tempos' = AnalyzedDetailedTempos(tracks, ticks_per_beat)
            /\ overlap_result' =
                  IF \/ AnalyzeRaisesAtFirstNote(tracks, ticks_per_beat)
                     \/ (ticks_per_beat = 0 /\ SomePairMatched(tracks))
                  THEN MultitrackError
                  ELSE MultitrackResult(
                           CollectMultitrackOf(tracks, AnalyzedTempoChanges(tracks),
                                               ticks_per_beat).notes)
    /\ UNCHANGED <<fileVars, time_result, extractVars, resolverVars>>
    /\ UNCHANGED outputVars

\* overlap_result = self.detect_midi_overlaps(input_file)
DetectMidiOverlaps ==
    /\ pc = "analyzed"
    /\ pc' = "detected"
    /\ overlap_result' = MidiOverlapsResult(tracks, ticks_per_beat)
    /\ UNCHANGED <<fileVars, tempoVars, time_result, extractVars, resolverVars>>
    /\ UNCHANGED outputVars

NextDetect ==
    \/ NewTrack
    \/ AppendDetectMsg
    \/ AnalyzeTempo
    \/ DetectMultitrackOverlaps
    \/ DetectMidiOverlaps

SpecDetect == Init /\ [][NextDetect]_vars

----------------------------------------------------------------------------
(* OverlapResolver.  Every operator takes the heap and lists of heap       *)
(* indices and gives back [heap, notes]: the heap after its mutations and   *)
(* allocations, and the list it returns.                                    *)

RECURSIVE GCD(_, _)
GCD(a, b) == IF b = 0 THEN a ELSE GCD(b, a % b)

\* int(a * (n / d)) for a, n >= 0 and d > 0, as the exact quotient; the fraction
\* is reduced first so that the product stays small
ScaledInt(a, n, d) ==
    LET g == GCD(n, d)
    IN  (a * (n \div g)) \div (d \div g)

\* CopyNotes that hands back the caller's dicts instead of copies
CopyNotesShared(h, notes) == [heap |-> h, notes |-> notes]

\* [note.copy() for note in notes]: new dicts with the same items
CopyNotes(h, notes) ==
    [heap |-> h \o [i \in 1..Len(notes) |-> h[notes[i]]],
     notes |-> [i \in 1..Len(notes) |-> Len(h) + i]]

\* sorted(notes, key=lambda x: x['start_seconds']) and the in-place sort
SortByStart(h, notes) == StableSortBy(notes, LAMBDA id : h[id].start_seconds)

\* the clip of both passes: end_seconds = new_end, duration_seconds recomputed,
\* and the ticks shortened in proportion when the note had a length
ClipNote(note, new_end) ==
    LET old_end == note.end_seconds
        duration_seconds == new_end - note.start_seconds
        clipped == [note EXCEPT !.end_seconds = new_end,
                                !.duration_seconds = duration_seconds]
    IN  IF note.duration_ticks > 0 /\ old_end > note.start_seconds
        THEN LET duration_ticks == ScaledInt(note.duration_ticks, duration_seconds,
                                             old_end - note.start_seconds)
             IN  [clipped EXCEPT !.duration_ticks = duration_ticks,
                                 !.end_tick = note.start_tick + duration_ticks]
        ELSE clipped

\* SameNoteStep that clips the current note to the end of the next one
SameNoteStepToNextEnd(h, current, next) ==
    IF h[current].end_seconds > h[next].start_seconds
    THEN [h EXCEPT ![current] = ClipNote(h[current], h[next].end_seconds)]
    ELSE h

\* one turn of the loop of pass 1 over a pitch group: the pair (current, next)
SameNoteStep(h, current, next) ==
    IF h[current].end_seconds > h[next].start_seconds
    THEN [h EXCEPT ![current] = ClipNote(h[current], h[next].start_seconds)]
    ELSE h

\* the heap after the first i turns of the loop over a sorted pitch group
RECURSIVE SameNoteTurns(_, _, _)
SameNoteTurns(h, group, i) ==
    IF i <= 0 THEN h
    ELSE SameNoteStep(SameNoteTurns(h, group, i - 1), group[i], group[i + 1])

\* the pitches of a list in the order dict note_groups gets its keys
RECURSIVE KeysInOrder(_, _)
KeysInOrder(values, seen) ==
    IF values = <<>> THEN <<>>
    ELSE IF Head(values) \in seen THEN KeysInOrder(Tail(values), seen)
    ELSE <<Head(values)>> \o KeysInOrder(Tail(values), seen \cup {Head(values)})

\* the members of a list whose field has the value, in list order
Group(h, notes, field, value) == SelectSeq(notes, LAMBDA id : h[id][field] = value)

\* the loop of pass 1 over the pitch groups, from group g on
RECURSIVE SameNoteGroups(_, _, _, _)
SameNoteGroups(h, notes, pitches, g) ==
    IF g > Len(pitches) THEN h
    ELSE LET note_list == SortByStart(h, Group(h, notes, "note", pitches[g]))
         IN  SameNoteGroups(SameNoteTurns(h, note_list, Len(note_list) - 1),
                            notes, pitches, g + 1)

\* _fix_same_note_overlaps_corrected
FixSameNoteOverlapsCorrected(h, notes) ==
    LET pitches == KeysInOrder([i \in 1..Len(notes) |-> h[notes[i]].note], {})
        after == SameNoteGroups(h, notes, pitches, 1)
    IN  [heap |-> after,
         notes |-> SelectSeq(notes, LAMBDA id : after[id].duration_seconds > Millisecond)]

RemoveAt(list, i) == SubSeq(list, 1, i - 1) \o SubSeq(list, i + 1, Len(list))

\* _fix_different_note_overlaps that keeps a clipped note of exactly 1 ms
RECURSIVE DifferentNoteLoopKeepsMillisecond(_, _, _)
DifferentNoteLoopKeepsMillisecond(h, working_notes, i) ==
    IF i > Len(working_notes) - 1 THEN [heap |-> h, notes |-> working_notes]
    ELSE LET current == working_notes[i]
             next == working_notes[i + 1]
         IN  IF /\ h[current].note # h[next].note
                /\ h[current].start_seconds < h[next].end_seconds
                /\ h[next].start_seconds < h[current].end_seconds
             THEN LET clipped == [h EXCEPT ![current] =
                                     ClipNote(h[current], h[next].start_seconds)]
                  IN  IF clipped[current].duration_seconds < Millisecond
                      THEN DifferentNoteLoopKeepsMillisecond(clipped,
                                                             RemoveAt(working_notes, i), i)
                      ELSE DifferentNoteLoopKeepsMillisecond(clipped, working_notes, i + 1)
             ELSE DifferentNoteLoopKeepsMillisecond(h, working_notes, i + 1)

\* DifferentNoteLoop that drops a clipped note when the part cut off, not the
\* part left, is at most 1 ms
RECURSIVE DifferentNoteLoopDropsByCut(_, _, _)
DifferentNoteLoopDropsByCut(h, working_notes, i) ==
    IF i > Len(working_notes) - 1 THEN [heap |-> h, notes |-> working_notes]
    ELSE LET current == working_notes[i]
             next == working_notes[i + 1]
         IN  IF /\ h[current].note # h[next].note
                /\ h[current].start_seconds < h[next].end_seconds
                /\ h[next].start_seconds < h[current].end_seconds
             THEN LET clipped == [h EXCEPT ![current] =
                                     ClipNote(h[current], h[next].start_seconds)]
                  IN  IF h[current].end_seconds - h[next].start_seconds <= Millisecond
                      THEN DifferentNoteLoopDropsByCut(clipped, RemoveAt(working_notes, i), i)
                      ELSE DifferentNoteLoopDropsByCut(clipped, working_notes, i + 1)
             ELSE DifferentNoteLoopDropsByCut(h, working_notes, i + 1)

\* the while loop of _fix_different_note_overlaps at index i (1-based)
RECURSIVE DifferentNoteLoop(_, _, _)
DifferentNoteLoop(h, working_notes, i) ==
    IF i > Len(working_notes) - 1 THEN [heap |-> h, notes |-> working_notes]
    ELSE LET current == working_notes[i]
             next == working_notes[i + 1]
         IN  IF /\ h[current].note # h[next].note
                /\ h[current].start_seconds < h[next].end_seconds
                /\ h[next].start_seconds < h[current].end_seconds
             THEN LET clipped == [h EXCEPT ![current] =
                                     ClipNote(h[current], h[next].start_seconds)]
                  IN  IF clipped[current].duration_seconds <= Millisecond
                      THEN DifferentNoteLoop(clipped, RemoveAt(working_notes, i), i)
                      ELSE DifferentNoteLoop(clipped, working_notes, i + 1)
             ELSE DifferentNoteLoop(h, working_notes, i + 1)

\* _fix_different_note_overlaps
FixDifferentNoteOverlaps(h, notes) == DifferentNoteLoop(h, SortByStart(h, notes), 1)

\* FixChannelOverlaps without its second pass
FixChannelOverlapsFirstPassOnly(h, notes) ==
    IF notes = <<>> THEN [heap |-> h, notes |-> <<>>]
    ELSE LET copied == CopyNotes(h, notes)
             working_notes == SortByStart(copied.heap, copied.notes)
         IN  FixSameNoteOverlapsCorrected(copied.heap, working_notes)

\* _fix_channel_overlaps
FixChannelOverlaps(h, notes) ==
    IF notes = <<>> THEN [heap |-> h, notes |-> <<>>]
    ELSE LET copied == CopyNotes(h, notes)
             working_notes == SortByStart(copied.heap, copied.notes)
             first == FixSameNoteOverlapsCorrected(copied.heap, working_notes)
         IN  FixDifferentNoteOverlaps(first.heap, first.notes)

\* FixChannelGroups that appends the notes it was given along with the fixed ones
RECURSIVE FixChannelGroupsKeepingInput(_, _, _, _, _)
FixChannelGroupsKeepingInput(h, notes, channels, g, fixed_notes) ==
    IF g > Len(channels) THEN [heap |-> h, notes |-> fixed_notes]
    ELSE LET sorted_notes == SortByStart(h, Group(h, notes, "channel", channels[g]))
             channel_fixed == FixChannelOverlaps(h, sorted_notes)
         IN  FixChannelGroupsKeepingInput(channel_fixed.heap, notes, channels, g + 1,
                              fixed_notes \o channel_fixed.notes \o sorted_notes)

\* the loop over channel_groups, from group g on: each channel's notes sorted,
\* fixed and appended to fixed_notes
RECURSIVE FixChannelGroups(_, _, _, _, _)
FixChannelGroups(h, notes, channels, g, fixed_notes) ==
    IF g > Len(channels) THEN [heap |-> h, notes |-> fixed_notes]
    ELSE LET sorted_notes == SortByStart(h, Group(h, notes, "channel", channels[g]))
             channel_fixed == FixChannelOverlaps(h, sorted_notes)
         IN  FixChannelGroups(channel_fixed.heap, notes, channels, g + 1,
                              fixed_notes \o channel_fixed.notes)

ChannelsOf(h, notes) == KeysInOrder([i \in 1..Len(notes) |-> h[notes[i]].channel], {})

\* fix_overlapping_notes
FixOverlappingNotesOf(h, note_positions_) ==
    IF note_positions_ = <<>> THEN [heap |-> h, notes |-> note_positions_]
    ELSE FixChannelGroups(h, note_positions_, ChannelsOf(h, note_positions_), 1, <<>>)

\* the channel groups of one track in track-scoped mode, from group g on: a
\* group of one note is passed through as it is
RECURSIVE FixTrackChannelGroups(_, _, _, _, _)
FixTrackChannelGroups(h, track_notes, channels, g, fixed_notes) ==
    IF g > Len(channels) THEN [heap |-> h, notes |-> fixed_notes]
    ELSE LET notes == Group(h, track_notes, "channel", channels[g])
         IN  IF Len(notes) > 1
             THEN LET channel_fixed == FixChannelOverlaps(h, SortByStart(h, notes))
                  IN  FixTrackChannelGroups(channel_fixed.heap, track_notes, channels,
                                            g + 1, fixed_notes \o channel_fixed.notes)
             ELSE FixTrackChannelGroups(h, track_notes, channels, g + 1,
                                        fixed_notes \o notes)

\* the loop over track_groups, from group g on
RECURSIVE FixTrackGroups(_, _, _, _, _)
FixTrackGroups(h, processed_notes, track_ids, g, fixed_notes) ==
    IF g > Len(track_ids) THEN [heap |-> h, notes |-> fixed_notes]
    ELSE LET track_notes == Group(h, processed_notes, "original_track", track_ids[g])
             done == FixTrackChannelGroups(h, track_notes, ChannelsOf(h, track_notes),
                                           1, fixed_notes)
         IN  FixTrackGroups(done.heap, processed_notes, track_ids, g + 1, done.notes)

\* FixMultitrackOf that resolves across tracks whatever fix_cross_track says
FixMultitrackAcrossTracks(h, all_notes, fix_cross_track) ==
    IF all_notes = <<>> THEN [heap |-> h, notes |-> all_notes]
    ELSE LET processed == CopyNotes(h, all_notes)
             fixed == FixChannelGroups(processed.heap, processed.notes,
                                       ChannelsOf(processed.heap, processed.notes), 1, <<>>)
         IN  [heap |-> fixed.heap, notes |-> SortByStart(fixed.heap, fixed.notes)]

\* fix_multitrack_overlapping_notes
FixMultitrackOf(h, all_notes, fix_cross_track) ==
    IF all_notes = <<>> THEN [heap |-> h, notes |-> all_notes]
    ELSE LET processed == CopyNotes(h, all_notes)
             fixed ==
                 IF fix_cross_track
                 THEN FixChannelGroups(processed.heap, processed.notes,
                                       ChannelsOf(processed.heap, processed.notes), 1, <<>>)
                 ELSE FixTrackGroups(processed.heap, processed.notes,
                          KeysInOrder([i \in 1..Len(processed.notes) |->
                                          processed.heap[processed.notes[i]].original_track],
                                      {}),
                          1, <<>>)
         IN  [heap |-> fixed.heap, notes |-> SortByStart(fixed.heap, fixed.notes)]

----------------------------------------------------------------------------
(* Retimer: _create_new_midi_with_exact_timing.  A BPM value is an integer  *)
(* number of hundredths of a beat per minute.                               *)

\* _tempo_to_bpm: round(60000000 / tempo, 2), 120.0 for a tempo <= 0
TempoToBpm(tempo) ==
    IF tempo <= 0 THEN 12000
    ELSE (60000000 \div tempo) * 100 + RoundHalfEven((60000000 % tempo) * 100, tempo)

\* _bpm_to_tempo: int(60000000 / bpm), 500000 for a bpm <= 0
BpmToTempo(bpm) ==
    IF bpm <= 0 THEN 500000
    ELSE (60000000 \div bpm) * 100 + ((60000000 % bpm) * 100) \div bpm

\* target_tempo of the retimer
TargetTempo(target_bpm, keep_original_tempo, orig_tempo) ==
    IF keep_original_tempo THEN BpmToTempo(target_bpm)
    ELSE IF orig_tempo # None /\ orig_tempo # 0 THEN orig_tempo
    ELSE BpmToTempo(target_bpm)

\* velocity_value = min(127, max(1, int(127 * velocity_percent / 100)))
VelocityValue(velocity_percent_) == Min(127, Max(1, (127 * velocity_percent_) \div 100))

Event(msg, absolute_ticks, absolute_seconds) ==
    [msg |-> msg, absolute_ticks |-> absolute_ticks, absolute_seconds |-> absolute_seconds]

\* IsKept that lets the note events of the input through as well
IsKeptOrNote(msg, remove_cc) ==
    /\ ~(remove_cc /\ msg.type \in ControlTypes)
    /\ msg.type # "set_tempo"
    /\ msg.type \notin MarkerTypes

\* the message k of a track is one the first loop of the retimer keeps
IsKept(msg, remove_cc) ==
    /\ msg.type \notin {"note_on", "note_off"}
    /\ ~(remove_cc /\ msg.type \in ControlTypes)
    /\ msg.type # "set_tempo"
    /\ msg.type \notin MarkerTypes

\* the dict the first loop of the retimer appends for the kept message k: a
\* control message goes to the tick of its seconds at the target tempo, any
\* other message keeps its tick
KeptEvent(track, k, changes, tpb, remove_cc, target_tempo) ==
    LET absolute_ticks == AbsoluteTick(track, k)
        absolute_seconds == CalculateAbsoluteTime(absolute_ticks, changes, tpb)
    IN  IF ~remove_cc /\ track[k].type \in ControlTypes
        THEN Event(track[k], SecondsToTicksPrecise(absolute_seconds, target_tempo, tpb),
                   absolute_seconds)
        ELSE Event(track[k], absolute_ticks, absolute_seconds)

\* track_events[track_idx] after the first loop, from message k on
RECURSIVE KeptEvents(_, _, _, _, _, _)
KeptEvents(track, k, changes, tpb, remove_cc, target_tempo) ==
    IF k > Len(track) THEN <<>>
    ELSE (IF IsKept(track[k], remove_cc)
          THEN <<KeptEvent(track, k, changes, tpb, remove_cc, target_tempo)>>
          ELSE <<>>)
         \o KeptEvents(track, k + 1, changes, tpb, remove_cc, target_tempo)

\* NoteOnOff that leaves a note at the ticks it had in the input
NoteOnOffAtOriginalTicks(note, tpb, set_velocity, velocity_value, target_tempo) ==
    << Event(NoteOn(0, note.note, note.channel,
                    IF set_velocity THEN velocity_value ELSE note.velocity),
             note.start_tick, note.start_seconds),
       Event(NoteOff(0, note.note, note.channel), note.end_tick, note.end_seconds) >>

\* the two dicts the second loop appends for a note
NoteOnOff(note, tpb, set_velocity, velocity_value, target_tempo) ==
    << Event(NoteOn(0, note.note, note.channel,
                    IF set_velocity THEN velocity_value ELSE note.velocity),
             SecondsToTicksPrecise(note.start_seconds, target_tempo, tpb),
             note.start_seconds),
       Event(NoteOff(0, note.note, note.channel),
             SecondsToTicksPrecise(note.end_seconds, target_tempo, tpb),
             note.end_seconds) >>

\* what the second loop appends to track_events[track_idx], from note n on
RECURSIVE NoteEvents(_, _, _, _, _, _, _)
NoteEvents(notes, n, track_idx, tpb, set_velocity, velocity_value, target_tempo) ==
    IF n > Len(notes) THEN <<>>
    ELSE (IF notes[n].track = track_idx
          THEN NoteOnOff(notes[n], tpb, set_velocity, velocity_value, target_tempo)
          ELSE <<>>)
         \o NoteEvents(notes, n + 1, track_idx, tpb, set_velocity, velocity_value,
                       target_tempo)

\* TrackEvents that leaves the events in the order they were appended
TrackEventsUnsorted(trks, track_idx, notes, changes, tpb, remove_cc, set_velocity, velocity_value, target_tempo) ==
    KeptEvents(trks[track_idx + 1], 1, changes, tpb, remove_cc, target_tempo)
        \o NoteEvents(notes, 1, track_idx, tpb, set_velocity, velocity_value,
                      target_tempo)

\* track_events[track_idx] after events.sort(key=lambda x: x['absolute_ticks'])
TrackEvents(trks, track_idx, notes, changes, tpb, remove_cc, set_velocity, velocity_value, target_tempo) ==
    StableSortBy(
        KeptEvents(trks[track_idx + 1], 1, changes, tpb, remove_cc, target_tempo)
            \o NoteEvents(notes, 1, track_idx, tpb, set_velocity, velocity_value,
                          target_tempo),
        LAMBDA e : e.absolute_ticks)

\* the messages the last loop appends to a new track: each event's message
\* with time = absolute_ticks - last_tick
DeltaMessages(events) ==
    [k \in 1..Len(events) |->
        [events[k].msg EXCEPT
            !.time = events[k].absolute_ticks
                       - (IF k = 1 THEN 0 ELSE events[k - 1].absolute_ticks)]]

\* _create_new_midi_with_exact_timing: the tracks of new_midi
CreateNewMidiOf(trks, notes, changes, tpb, orig_tempo, velocity_percent_, target_bpm, remove_cc, set_velocity, keep_original_tempo) ==
    LET target_tempo == TargetTempo(target_bpm, keep_original_tempo, orig_tempo)
        velocity_value == VelocityValue(velocity_percent_)
    IN  [i \in 1..Len(trks) |->
            (IF i = 1 THEN <<SetTempo(0, target_tempo)>> ELSE <<>>)
            \o DeltaMessages(TrackEvents(trks, i - 1, notes, changes, tpb, remove_cc,
                                         set_velocity, velocity_value, target_tempo))]

----------------------------------------------------------------------------
(* The retimer specification: a file of tempo, note, control and meta      *)
(* events is loaded, analyzed, its notes are extracted and the new file is  *)
(* created.                                                                 *)

\* at most this many messages in a file of the retimer specification
MaxRetimeMsgs == 4
\* no message of such a file lies after this absolute tick
MaxRetimeTick == 40

RetimeDeltas == {0, 10}
\* a tempo of 500000 at the tick of the message before, one of 250000 ten
\* ticks later, a note of pitch 60, a control change, a time signature, a marker
RetimeMsgs ==
    {SetTempo(0, 500000), SetTempo(10, 250000)}
        \cup {NoteOn(d, 60, 0, 100) : d \in RetimeDeltas}
        \cup {NoteOff(d, 60, 0) : d \in RetimeDeltas}
        \cup {ControlChange(d, 0) : d \in RetimeDeltas}
        \cup {TimeSignature(d) : d \in RetimeDeltas}
        \cup {Msg("marker", 0, 0, 0, 0, 0)}

AppendRetimeMsg == AppendTo(RetimeMsgs, MaxRetimeMsgs, MaxRetimeTick)

\* the target BPM values of the retimer specification, in hundredths: 120 and 80
RetimeTargetBpms == {12000, 8000}
\* new_midi = self._create_new_midi_with_exact_timing(midi, note_positions,
\* target_bpm, remove_cc, set_velocity, keep_original_tempo); track_events is
\* the local list of the sorted event dicts of every track
CreateNewMidiWithExactTiming ==
    /\ pc = "collected"
    /\ \E target_bpm \in RetimeTargetBpms, remove_cc \in BOOLEAN,
          set_velocity \in BOOLEAN, keep_original_tempo \in BOOLEAN :
          LET target_tempo == TargetTempo(target_bpm, keep_original_tempo, original_tempo)
          IN  /\ call' = [fn |-> "_create_new_midi_with_exact_timing",
                          target_bpm |-> target_bpm,
                          remove_cc |-> remove_cc,
                          set_velocity |-> set_velocity,
                          keep_original_tempo |-> keep_original_tempo,
                          target_tempo |-> target_tempo]
              /\ new_midi' =
                    [ticks_per_beat |-> ticks_per_beat,
                     tracks |-> CreateNewMidiOf(tracks, note_positions, tempo_changes,
                                                ticks_per_beat, original_tempo,
                                                velocity_percent, target_bpm,
                                                remove_cc, set_velocity,
                                                keep_original_tempo),
                     track_events |->
                        [i \in 1..Len(tracks) |->
                            TrackEvents(tracks, i - 1, note_positions, tempo_changes,
                                        ticks_per_beat, remove_cc, set_velocity,
                                        VelocityValue(velocity_percent),
                                        target_tempo)]]
    /\ pc' = "created"
    /\ UNCHANGED <<fileVars, tempoVars, time_result, extractVars, overlap_result,
                   heap, arg_notes, arg_heap, ret_notes, results, written, signals,
                   velocity_percent>>

NextRetime ==
    \/ NewTrack
    \/ AppendRetimeMsg
    \/ AnalyzeTempo
    \/ CollectNotePositions
    \/ CreateNewMidiWithExactTiming

SpecRetime == Init /\ [][NextRetime]_vars

----------------------------------------------------------------------------
(* The resolver on note lists.  The lists are those process_file passes on: *)
(* notes of collect_multitrack_note_positions, sorted by start_seconds, of   *)
(* a file with the one tempo GridTempo, at which a tick lasts 0.6 ms.        *)

MaxNotes == 3
MaxGridTick == 4
GridTempo == 288000
GridTable == << <<0, GridTempo>> >>

\* track, channel and pitch of the notes: a pair of the same pitch in one track
\* and channel, and a note that differs from it in the pitch, the track or the
\* channel
NoteVoices ==
    { [track |-> 0, channel |-> 0, note |-> 60],
      [track |-> 0, channel |-> 0, note |-> 62],
      [track |-> 1, channel |-> 0, note |-> 60],
      [track |-> 0, channel |-> 1, note |-> 60] }

GridNote(voice, start_tick, end_tick) ==
    NoteInfo(voice.track, [note |-> voice.note, channel |-> voice.channel],
             [start_tick |-> start_tick, velocity |-> 100], end_tick,
             GridTable, TicksPerBeat, TRUE)

\* a note of one track and channel 0 given by its seconds, at 0.5 ms a tick
SecondsNote(pitch, start_seconds, end_seconds) ==
    LET tick == Millisecond \div 2
    IN  [original_track |-> 0,
         track |-> 0,
         note |-> pitch,
         channel |-> 0,
         velocity |-> 100,
         start_tick |-> start_seconds \div tick,
         end_tick |-> end_seconds \div tick,
         start_seconds |-> start_seconds,
         end_seconds |-> end_seconds,
         duration_ticks |-> (end_seconds \div tick) - (start_seconds \div tick),
         duration_seconds |-> end_seconds - start_seconds]

\* pitch 60 [0.0, 1.0005] followed by pitch 62 [1.0, 2.0]
CrossPitchExample ==
    << SecondsNote(60, 0, Second + Millisecond \div 2),
       SecondsNote(62, Second, 2 * Second) >>

\* test_notes of test_overlap_fix
TestNotes ==
    << [note |-> 60, channel |-> 0,
        start_seconds |-> 0, end_seconds |-> 2 * Second, duration_seconds |-> 2 * Second,
        start_tick |-> 0, end_tick |-> 1000, duration_ticks |-> 1000, velocity |-> 80],
       [note |-> 60, channel |-> 0,
        start_seconds |-> Second, end_seconds |-> 3 * Second,
        duration_seconds |-> 2 * Second,
        start_tick |-> 500, end_tick |-> 1500, duration_ticks |-> 1000, velocity |-> 80] >>

InitResolve ==
    /\ pc = "notes"
    /\ NoFile
    /\ Constructed
    /\ time_result = <<>>
    /\ note_positions = <<>>
    /\ unmatched_count = None
    /\ overlap_result = <<>>
    /\ heap \in {<<>>, CrossPitchExample}
    /\ arg_notes = [i \in 1..Len(heap) |-> i]
    /\ arg_heap = <<>>
    /\ ret_notes = <<>>
    /\ call = <<>>
    /\ new_midi = None
    /\ results = <<>>
    /\ written = <<>>
    /\ velocity_percent = 80
    /\ signals = <<>>

\* one more note at the end of the list the caller is going to pass
AddNote ==
    /\ pc = "notes"
    /\ Len(arg_notes) < MaxNotes
    /\ \E voice \in NoteVoices, start_tick \in 0..MaxGridTick :
          \E end_tick \in start_tick..MaxGridTick :
              LET note == GridNote(voice, start_tick, end_tick)
              IN  /\ \A i \in 1..Len(arg_notes) :
                        heap[arg_notes[i]].start_seconds <= note.start_seconds
                  /\ heap' = Append(heap, note)
                  /\ arg_notes' = Append(arg_notes, Len(heap) + 1)
    /\ UNCHANGED <<pc, fileVars, tempoVars, time_result, extractVars, overlap_result,
                   arg_heap, ret_notes, call>>
    /\ UNCHANGED outputVars

Returned(fn, fix_cross_track, before, result) ==
    /\ pc' = "fixed"
    /\ call' = [fn |-> fn, fix_cross_track |-> fix_cross_track]
    /\ arg_heap' = before
    /\ heap' = result.heap
    /\ ret_notes' = result.notes

\* note_positions = self.fix_overlapping_notes(note_positions)
FixOverlappingNotes ==
    /\ pc = "notes"
    /\ Returned("fix_overlapping_notes", FALSE, heap, FixOverlappingNotesOf(heap, arg_notes))
    /\ UNCHANGED <<fileVars, tempoVars, time_result, extractVars, overlap_result, arg_notes>>
    /\ UNCHANGED outputVars

\* note_positions = self.fix_multitrack_overlapping_notes(all_notes, fix_cross_track)
FixMultitrackOverlappingNotes ==
    /\ pc = "notes"
    /\ \E fix_cross_track \in BOOLEAN :
          Returned("fix_multitrack_overlapping_notes", fix_cross_track, heap,
                   FixMultitrackOf(heap, arg_notes, fix_cross_track))
    /\ UNCHANGED <<fileVars, tempoVars, time_result, extractVars, overlap_result, arg_notes>>
    /\ UNCHANGED outputVars

\* test_overlap_fix: builds test_notes and passes them to _fix_channel_overlaps
TestOverlapFix ==
    /\ pc = "notes"
    /\ arg_notes = <<>>
    /\ arg_notes' = <<1, 2>>
    /\ Returned("test_overlap_fix", FALSE, TestNotes, FixChannelOverlaps(TestNotes, <<1, 2>>))
    /\ UNCHANGED <<fileVars, tempoVars, time_result, extractVars, overlap_result>>
    /\ UNCHANGED outputVars

NextResolve ==
    \/ AddNote
    \/ FixOverlappingNotes
    \/ FixMultitrackOverlappingNotes
    \/ TestOverlapFix

SpecResolve == InitResolve /\ [][NextResolve]_vars

----------------------------------------------------------------------------
(* The two passes of _fix_channel_overlaps on the notes of one channel, on  *)
(* a grid of half milliseconds, so that a clip can leave 0.5 ms, exactly    *)
(* 1 ms or more.                                                            *)

\* the notes start and end at 0, 0.5 ms, ..., MaxHalfMillisecond * 0.5 ms
MaxHalfMillisecond == 8

\* the pitches of the notes
ChannelPitches == {60, 62}

\* one more note of the channel at the end of the list, which stays sorted by
\* start_seconds as the lists of the callers are
AddChannelNote ==
    /\ pc = "notes"
    /\ Len(arg_notes) < MaxNotes
    /\ \E pitch \in ChannelPitches, start \in 0..MaxHalfMillisecond :
          \E end \in start..MaxHalfMillisecond :
              LET note == SecondsNote(pitch, start * (Millisecond \div 2),
                                      end * (Millisecond \div 2))
              IN  /\ \A i \in 1..Len(arg_notes) :
                        heap[arg_notes[i]].start_seconds <= note.start_seconds
                  /\ heap' = Append(heap, note)
                  /\ arg_notes' = Append(arg_notes, Len(heap) + 1)
    /\ UNCHANGED <<pc, fileVars, tempoVars, time_result, extractVars, overlap_result,
                   arg_heap, ret_notes, call>>
    /\ UNCHANGED outputVars

\* _fix_channel_overlaps up to the end of its first pass (lines 1705-1720): the
\* copies, the sort and _fix_same_note_overlaps_corrected
SameNotePass ==
    /\ pc = "notes"
    /\ arg_notes # <<>>
    /\ pc' = "first_pass"
    /\ call' = [fn |-> "_fix_same_note_overlaps_corrected", fix_cross_track |-> FALSE]
    /\ \E copied \in {CopyNotes(heap, arg_notes)} :
          \E first \in {FixSameNoteOverlapsCorrected(
                            copied.heap, SortByStart(copied.heap, copied.notes))} :
              /\ arg_heap' = heap
              /\ heap' = first.heap
              /\ ret_notes' = first.notes
    /\ UNCHANGED <<fileVars, tempoVars, time_result, extractVars, overlap_result, arg_notes>>
    /\ UNCHANGED outputVars

\* the second pass of _fix_channel_overlaps (lines 1722-1730): the list of the
\* first pass goes to _fix_different_note_overlaps; arg_notes and arg_heap
\* become that list and the dicts as they were before the pass
DifferentNotePass ==
    /\ pc = "first_pass"
    /\ pc' = "fixed"
    /\ call' = [fn |-> "_fix_different_note_overlaps", fix_cross_track |-> FALSE]
    /\ \E second \in {FixDifferentNoteOverlaps(heap, ret_notes)} :
          /\ arg_heap' = heap
          /\ arg_notes' = ret_notes
          /\ heap' = second.heap
          /\ ret_notes' = second.notes
    /\ UNCHANGED <<fileVars, tempoVars, time_result, extractVars, overlap_result>>
    /\ UNCHANGED outputVars

NextChannel == AddChannelNote \/ SameNotePass \/ DifferentNotePass

SpecChannel == InitResolve /\ [][NextChannel]_vars

----------------------------------------------------------------------------
(* The conversions at one tempo: ticks -> seconds -> ticks.                 *)

MaxRoundTripTick == 2000
RoundTripTempos == {1, 250000, 333333, 500000, 600000, 1000000}
RoundTripTicksPerBeat == {96, 480, 960}

InitRoundTrip ==
    /\ pc = "args"
    /\ ticks_per_beat \in RoundTripTicksPerBeat
    /\ tracks = <<>>
    /\ Constructed
    /\ time_result = <<>>
    /\ note_positions = <<>>
    /\ unmatched_count = None
    /\ overlap_result = <<>>
    /\ heap = <<>>
    /\ arg_notes = <<>>
    /\ arg_heap = <<>>
    /\ ret_notes = <<>>
    /\ call \in [fn : {"_seconds_to_ticks_precise"}, tempo : RoundTripTempos]
    /\ new_midi = None
    /\ results = <<>>
    /\ written = <<>>
    /\ velocity_percent = 80
    /\ signals = <<>>

\* self._seconds_to_ticks_precise(self._ticks_to_seconds(t, T, tpb), T, tpb)
RoundTrip ==
    /\ pc = "args"
    /\ pc' = "converted"
    /\ \E t \in 0..MaxRoundTripTick :
          LET seconds == TicksToSeconds(t, call.tempo, ticks_per_beat)
          IN  time_result' = [ticks |-> t,
                              seconds |-> seconds,
                              back |-> SecondsToTicksPrecise(seconds, call.tempo,
                                                             ticks_per_beat)]
    /\ UNCHANGED <<fileVars, tempoVars, extractVars, overlap_result, resolverVars>>
    /\ UNCHANGED outputVars

NextRoundTrip == RoundTrip

SpecRoundTrip == InitRoundTrip /\ [][NextRoundTrip]_vars

----------------------------------------------------------------------------
(* process_file and process_directory.  The texts of a result are tags:     *)
(* status "success" (the code's text for a saved file), "processed_forced", *)
(* "processed_overlap", "detect_only", "not_needed" and "error"; the        *)
(* overlap_status tags "global_overlap", "track_overlap",                   *)
(* "cross_track_overlap" and "has_overlap" stand for the texts that contain *)
(* the word for overlap and a count, "no_overlap" and "not_checked" for the *)
(* two fixed texts.                                                         *)

\* has_multiple_tempos: more than one entry in the table and more than one
\* tempo value among them
HasMultipleTempos(changes) ==
    /\ Len(changes) > 1
    /\ Cardinality({changes[i][2] : i \in 1..Len(changes)}) > 1

\* original_bpm = self._tempo_to_bpm(self.original_tempo) if self.original_tempo
\* else 120
OriginalBpm(orig_tempo) ==
    IF orig_tempo # None /\ orig_tempo # 0 THEN TempoToBpm(orig_tempo) ELSE 12000

\* abs(a - b) < 0.1 on BPM values in hundredths
WithinTenthBpm(a, b) == (IF a < b THEN b - a ELSE a - b) < 10

\* bpm_matches
BpmMatches(changes, orig_tempo, target_bpm) ==
    /\ ~HasMultipleTempos(changes)
    /\ WithinTenthBpm(OriginalBpm(orig_tempo), target_bpm)

\* has_cc_messages
HasCcMessages(trks) ==
    \E t \in 1..Len(trks) : \E k \in 1..Len(trks[t]) : trks[t][k].type \in ControlTypes

\* a note_on with velocity > 0 whose velocity is more than 3 away from target
SomeVelocityOff(trks, target_velocity) ==
    \E t \in 1..Len(trks) : \E k \in 1..Len(trks[t]) :
        /\ trks[t][k].type = "note_on"
        /\ trks[t][k].velocity > 0
        /\ (IF trks[t][k].velocity < target_velocity
            THEN target_velocity - trks[t][k].velocity
            ELSE trks[t][k].velocity - target_velocity) > 3

\* all_notes_match_velocity, against target_velocity = min(127, max(1,
\* int(127 * velocity_percent / 100)))
AllNotesMatchVelocity(trks, velocity_percent_) ==
    ~SomeVelocityOff(trks, VelocityValue(velocity_percent_))

\* needs_velocity_change, against target_velocity = int(128 * velocity_percent / 100)
NeedsVelocityChange(trks, set_velocity, velocity_percent_) ==
    set_velocity /\ SomeVelocityOff(trks, (128 * velocity_percent_) \div 100)

\* needs_bpm_conversion
NeedsBpmConversion(orig_tempo, keep_original_tempo, target_bpm) ==
    /\ keep_original_tempo
    /\ ~WithinTenthBpm(TempoToBpm(IF orig_tempo # None /\ orig_tempo # 0
                                  THEN orig_tempo ELSE 500000),
                       target_bpm)

\* has_multiple_note_tracks: more than one track holds a note_on or note_off
HasMultipleNoteTracks(trks) ==
    Cardinality({t \in 1..Len(trks) :
                    \E k \in 1..Len(trks[t]) : trks[t][k].type \in {"note_on", "note_off"}}) > 1

\* "重叠" in overlap_status and overlap_status != "无重叠"
NamesOverlap(overlap_status) ==
    overlap_status \in {"global_overlap", "track_overlap", "cross_track_overlap",
                        "has_overlap"}

\* what detect_multitrack_overlaps(input_file) returns for the file: it loads
\* and analyzes the file again and returns its error dict when that raises
DetectMultitrackOverlapsOf(trks, tpb) ==
    IF \/ AnalyzeRaisesInScan(trks, tpb)
       \/ AnalyzeRaisesAtFirstNote(trks, tpb)
       \/ (tpb = 0 /\ SomePairMatched(trks))
    THEN MultitrackError
    ELSE MultitrackResult(CollectMultitrackOf(trks, AnalyzedTempoChanges(trks), tpb).notes)

\* the outcome of the overlap block of either path: the heap and the list
\* note_positions is bound to, the two status texts and needs_overlap_file_save
Overlaps(h, notes, overlap_status, fix_overlap_status, save) ==
    [heap |-> h, note_positions |-> notes, overlap_status |-> overlap_status,
     fix_overlap_status |-> fix_overlap_status, needs_overlap_file_save |-> save]

\* if 'all_notes' in overlap_result and overlap_result['all_notes']:
\*     note_positions = overlap_result['all_notes']
WithAllNotes(res, overlap_result_, all_notes) ==
    IF "all_notes" \in DOMAIN overlap_result_
    THEN [res EXCEPT !.note_positions = all_notes]
    ELSE res

\* the outcome of the overlap block when the resolver ran: note_positions is
\* bound to the list it returned
Fixed(fixed, overlap_status, fix_overlap_status, save) ==
    Overlaps(fixed.heap, fixed.notes, overlap_status, fix_overlap_status, save)

\* the overlap block of the path of a matching file for a file with notes in
\* several tracks (lines 168-251), after detect_multitrack_overlaps
SkipPathMultitrack(h, note_positions_, fix_overlap, multitrack_overlap, overlap_result_) ==
    LET found == IF "all_notes" \in DOMAIN overlap_result_
                 THEN overlap_result_.all_notes ELSE <<>>
        h1 == h \o found
        all_notes == [i \in 1..Len(found) |-> Len(h) + i]
        fixable == multitrack_overlap \/ overlap_result_.same_track_overlaps > 0
        overlap_status == IF multitrack_overlap THEN "global_overlap" ELSE "track_overlap"
    IN  WithAllNotes(
            IF ~overlap_result_.has_overlap
            THEN Overlaps(h1, note_positions_, "no_overlap", "not_needed", FALSE)
            ELSE IF ~fixable
            THEN Overlaps(h1, note_positions_, "cross_track_overlap", "not_needed", FALSE)
            ELSE IF ~fix_overlap
            THEN Overlaps(h1, note_positions_, overlap_status, "not_processed", FALSE)
            ELSE IF all_notes = <<>>
            THEN Overlaps(h1, note_positions_, overlap_status, "fix_failed", FALSE)
            ELSE Fixed(FixMultitrackOf(h1, all_notes, multitrack_overlap), overlap_status,
                       IF multitrack_overlap THEN "fixed_global" ELSE "fixed_in_track",
                       TRUE),
            overlap_result_, all_notes)

\* the overlap block of the path of a matching file (lines 156-275); h holds
\* the dicts of note_positions
SkipPathOverlaps(trks, tpb, h, note_positions_, check_overlap, fix_overlap, multitrack_overlap) ==
    IF ~check_overlap
    THEN Overlaps(h, note_positions_, "not_checked", "not_processed", FALSE)
    ELSE IF HasMultipleNoteTracks(trks)
    THEN SkipPathMultitrack(h, note_positions_, fix_overlap, multitrack_overlap,
                            DetectMultitrackOverlapsOf(trks, tpb))
    ELSE IF ~MidiOverlapsResult(trks, tpb).has_overlap
    THEN Overlaps(h, note_positions_, "no_overlap", "not_needed", FALSE)
    ELSE IF ~fix_overlap
    THEN Overlaps(h, note_positions_, "has_overlap", "not_processed", FALSE)
    ELSE Fixed(FixOverlappingNotesOf(h, note_positions_), "has_overlap", "fixed", TRUE)

\* the overlap block of the other path for a file with notes in several tracks
\* (lines 366-452), after detect_multitrack_overlaps
MainPathMultitrack(h, note_positions_, fix_overlap, multitrack_overlap, overlap_result_) ==
    LET found == IF "all_notes" \in DOMAIN overlap_result_
                 THEN overlap_result_.all_notes ELSE <<>>
        h1 == h \o found
        all_notes == [i \in 1..Len(found) |-> Len(h) + i]
        same_track_overlaps == overlap_result_.same_track_overlaps
        overlap_status == IF multitrack_overlap THEN "global_overlap"
                          ELSE IF same_track_overlaps > 0 THEN "track_overlap"
                          ELSE "cross_track_overlap"
    IN  IF ~overlap_result_.has_overlap
        THEN WithAllNotes(Overlaps(h1, note_positions_, "no_overlap", "not_needed", FALSE),
                          overlap_result_, all_notes)
        ELSE IF fix_overlap /\ (multitrack_overlap \/ same_track_overlaps > 0)
        THEN IF all_notes = <<>>
             THEN Overlaps(h1, note_positions_, overlap_status, "fix_failed", FALSE)
             ELSE Fixed(FixMultitrackOf(h1, all_notes, multitrack_overlap), overlap_status,
                        IF multitrack_overlap THEN "fixed_global" ELSE "fixed_in_track",
                        FALSE)
        ELSE IF multitrack_overlap
        THEN Overlaps(h1, note_positions_, overlap_status, "not_processed", FALSE)
        ELSE WithAllNotes(
                 Overlaps(h1, note_positions_, overlap_status,
                          IF fix_overlap THEN "not_needed_no_track_overlap"
                          ELSE "not_processed",
                          FALSE),
                 overlap_result_, all_notes)

\* the overlap block of the other path (lines 354-472); the flag of the record
\* is not used there
MainPathOverlaps(trks, tpb, h, note_positions_, check_overlap, fix_overlap, multitrack_overlap) ==
    IF ~check_overlap
    THEN Overlaps(h, note_positions_, "not_checked", "not_processed", FALSE)
    ELSE IF HasMultipleNoteTracks(trks)
    THEN MainPathMultitrack(h, note_positions_, fix_overlap, multitrack_overlap,
                            DetectMultitrackOverlapsOf(trks, tpb))
    ELSE IF ~MidiOverlapsResult(trks, tpb).has_overlap
    THEN Overlaps(h, note_positions_, "no_overlap", "not_needed", FALSE)
    ELSE IF ~fix_overlap
    THEN Overlaps(h, note_positions_, "has_overlap", "not_processed", FALSE)
    ELSE Fixed(FixOverlappingNotesOf(h, note_positions_), "has_overlap", "fixed", FALSE)

\* the note dicts a list of heap indices stands for
NoteDicts(h, notes) == [i \in 1..Len(notes) |-> h[notes[i]]]

\* the retimer divides by ticks_per_beat for every event it keeps, and a file
\* with ticks_per_beat 0 that got this far has no notes
RetimerRaises(trks, tpb, remove_cc) ==
    /\ tpb = 0
    /\ \E t \in 1..Len(trks) : \E k \in 1..Len(trks[t]) : IsKept(trks[t][k], remove_cc)

\* the fields of the processor that a call of process_file reads and writes
Fields(velocity_percent_, orig_tempo, changes, detailed) ==
    [velocity_percent |-> velocity_percent_, original_tempo |-> orig_tempo,
     tempo_changes |-> changes, detailed_tempos |-> detailed]

\* the fields after MidiProcessor()
NewProcessor == Fields(80, None, <<>>, <<>>)

\* a file written to the output directory: a saved new_midi or a copy
Saved(path, tpb, trks, copied) ==
    [path |-> path, ticks_per_beat |-> tpb, tracks |-> trks, copied |-> copied]

\* the dict process_file returns
Result(filename, status, cause, path, note_count, original_bpm, velocity_status, cc_status, overlap_status, fix_overlap_status, is_multi_tempo) ==
    [filename |-> filename, status |-> status, cause |-> cause, path |-> path,
     note_count |-> note_count, original_bpm |-> original_bpm,
     velocity_status |-> velocity_status, cc_status |-> cc_status,
     overlap_status |-> overlap_status, fix_overlap_status |-> fix_overlap_status,
     is_multi_tempo |-> is_multi_tempo]

\* the dict of the except branch: the status is the error text with its cause
ErrorResult(filename, cause) ==
    Result(filename, "error", cause, "", 0, None, "failed", "failed", "detect_failed",
           "fix_failed", FALSE)

\* an exception raised in the body of process_file
Raise(cause) == [status |-> "raised", cause |-> cause]

\* what a call of process_file leaves behind: the fields of the processor, the
\* dict it returns, the files it wrote, and note_positions and new_midi where it
\* got that far
Outcome(fields, result, saved, notes, created) ==
    [fields |-> fields, result |-> result, saved |-> saved, note_positions |-> notes,
     new_midi |-> created]

\* the list of the indices of the notes _collect_note_positions returned
Indices(notes) == [i \in 1..Len(notes) |-> i]

\* what both paths do first: _collect_note_positions raises for a file without
\* a track (the count of the unmatched notes reads a name the loop never bound)
\* and for ticks_per_beat 0 once a note is matched
CollectRaises(trks, tpb) == Len(trks) = 0 \/ (tpb = 0 /\ SomePairMatched(trks))

\* the exception _collect_note_positions raises
CollectRaised(fields, trks) ==
    Outcome(fields,
            Raise(IF Len(trks) = 0 THEN "UnboundLocalError" ELSE "ZeroDivisionError"),
            <<>>, <<>>, None)

\* the result dict of either path (lines 331-345 and 572-588)
PathResult(fields, file, status, path, notes, velocity_status, cc_status, overlaps) ==
    Result(file.name, status, "", path, Len(notes), OriginalBpm(fields.original_tempo),
           velocity_status, cc_status, overlaps.overlap_status,
           overlaps.fix_overlap_status, HasMultipleTempos(fields.tempo_changes))

\* new_midi.save(output_path) and the result dict that follows
SavedOutcome(fields, file, status, notes, velocity_status, cc_status, overlaps, created) ==
    Outcome(fields,
            PathResult(fields, file, status, file.name, notes, velocity_status, cc_status,
                       overlaps),
            <<Saved(file.name, file.ticks_per_beat, created, FALSE)>>, notes, created)

\* the end of the path of a matching file (lines 277-345): notes are the dicts
\* note_positions is bound to after the overlap block
SkipPathEnd(fields, file, o, overlaps, notes) ==
    LET trks == file.tracks
        tpb == file.ticks_per_beat
        velocity_status ==
            IF o.set_velocity /\ AllNotesMatchVelocity(trks, o.velocity_percent)
            THEN "not_needed" ELSE "not_processed"
        cc_status ==
            IF o.remove_cc /\ ~HasCcMessages(trks) THEN "not_needed" ELSE "not_processed"
    IN  IF overlaps.needs_overlap_file_save
        THEN IF RetimerRaises(trks, tpb, o.remove_cc)
             THEN Outcome(fields, Raise("ZeroDivisionError"), <<>>, notes, None)
             ELSE SavedOutcome(fields, file, "processed_overlap", notes, velocity_status,
                               cc_status, overlaps,
                               CreateNewMidiOf(trks, notes, fields.tempo_changes, tpb,
                                               fields.original_tempo,
                                               fields.velocity_percent, o.target_bpm,
                                               o.remove_cc, o.set_velocity, FALSE))
        ELSE Outcome(fields,
                     PathResult(fields, file,
                                IF o.check_overlap /\ ~o.fix_overlap THEN "detect_only"
                                ELSE "not_needed",
                                "", notes, velocity_status, cc_status, overlaps),
                     <<>>, notes, None)

\* the path of a matching file from its overlap block on (lines 156-345)
SkipPathChecked(fields, file, o, overlaps) ==
    SkipPathEnd(fields, file, o, overlaps,
                NoteDicts(overlaps.heap, overlaps.note_positions))

\* the path of a matching file after _collect_note_positions (lines 153-345)
SkipPathCollected(fields, file, o, collected) ==
    SkipPathChecked(fields, file, o,
                    SkipPathOverlaps(file.tracks, file.ticks_per_beat, collected.notes,
                                     Indices(collected.notes), o.check_overlap,
                                     o.fix_overlap, o.multitrack_overlap))

\* the path of a file that matches (lines 148-345), after _analyze_tempo
SkipPath(fields, file, o) ==
    IF CollectRaises(file.tracks, file.ticks_per_beat)
    THEN CollectRaised(fields, file.tracks)
    ELSE SkipPathCollected(fields, file, o,
                           CollectNotePositionsOf(file.tracks, fields.tempo_changes,
                                                  file.ticks_per_beat))

\* the end of the other path (lines 474-588): notes are the dicts
\* note_positions is bound to after the overlap block
MainPathEnd(fields, file, o, overlaps, notes) ==
    LET trks == file.tracks
        tpb == file.ticks_per_beat
        bpm_matches == BpmMatches(fields.tempo_changes, fields.original_tempo, o.target_bpm)
        needs_bpm_conversion ==
            NeedsBpmConversion(fields.original_tempo, o.keep_original_tempo, o.target_bpm)
        needs_cc_removal == o.remove_cc /\ HasCcMessages(trks)
        needs_velocity_change == NeedsVelocityChange(trks, o.set_velocity, o.velocity_percent)
        needs_overlap_processing == o.fix_overlap /\ NamesOverlap(overlaps.overlap_status)
        force_processing ==
            /\ ~o.skip_matched
            /\ (o.keep_original_tempo \/ o.remove_cc \/ o.set_velocity \/ o.fix_overlap)
        needs_work == \/ needs_bpm_conversion
                      \/ needs_cc_removal
                      \/ needs_velocity_change
                      \/ needs_overlap_processing
        velocity_status ==
            IF ~o.set_velocity THEN "not_processed"
            ELSE IF bpm_matches /\ AllNotesMatchVelocity(trks, o.velocity_percent)
            THEN "not_needed" ELSE "processed"
        cc_status ==
            IF ~o.remove_cc THEN "not_processed"
            ELSE IF bpm_matches /\ ~HasCcMessages(trks) THEN "not_needed" ELSE "processed"
        needs_file_output == needs_work \/ force_processing
    IN  IF ~needs_file_output
        THEN Outcome(fields,
                     PathResult(fields, file,
                                IF o.check_overlap /\ ~o.fix_overlap THEN "detect_only"
                                ELSE "not_needed",
                                "", notes, velocity_status, cc_status, overlaps),
                     <<>>, notes, None)
        ELSE IF force_processing /\ ~needs_work
        THEN Outcome(fields,
                     PathResult(fields, file, "processed_forced", file.name, notes,
                                velocity_status, cc_status, overlaps),
                     <<Saved(file.name, tpb, trks, TRUE)>>, notes, None)
        ELSE IF RetimerRaises(trks, tpb, o.remove_cc)
        THEN Outcome(fields, Raise("ZeroDivisionError"), <<>>, notes, None)
        ELSE SavedOutcome(fields, file, "success", notes, velocity_status, cc_status,
                          overlaps,
                          CreateNewMidiOf(trks, notes, fields.tempo_changes, tpb,
                                          fields.original_tempo, fields.velocity_percent,
                                          o.target_bpm, o.remove_cc, o.set_velocity,
                                          o.keep_original_tempo))

\* the other path from its overlap block on (lines 354-588)
MainPathChecked(fields, file, o, overlaps) ==
    MainPathEnd(fields, file, o, overlaps,
                NoteDicts(overlaps.heap, overlaps.note_positions))

\* the other path after _collect_note_positions (lines 351-588)
MainPathCollected(fields, file, o, collected) ==
    MainPathChecked(fields, file, o,
                    MainPathOverlaps(file.tracks, file.ticks_per_beat, collected.notes,
                                     Indices(collected.notes), o.check_overlap,
                                     o.fix_overlap, o.multitrack_overlap))

\* the other path (lines 349-588), after _analyze_tempo
MainPath(fields, file, o) ==
    IF CollectRaises(file.tracks, file.ticks_per_beat)
    THEN CollectRaised(fields, file.tracks)
    ELSE MainPathCollected(fields, file, o,
                           CollectNotePositionsOf(file.tracks, fields.tempo_changes,
                                                  file.ticks_per_beat))

\* the try body from the test of bpm_matches on (lines 65-588); analyzed are
\* the fields of the processor after _analyze_tempo
ProcessFileAnalyzed(analyzed, file, o) ==
    IF /\ BpmMatches(analyzed.tempo_changes, analyzed.original_tempo, o.target_bpm)
       /\ o.skip_matched
       /\ ~(o.remove_cc /\ HasCcMessages(file.tracks))
    THEN SkipPath(analyzed, file, o)
    ELSE MainPath(analyzed, file, o)

\* the body of the try statement of process_file (lines 47-588) on a processor
\* with the fields self
ProcessFileBody(self, file, o) ==
    LET reset == Fields(o.velocity_percent, None, <<>>, <<>>)
        trks == file.tracks
        tpb == file.ticks_per_beat
    IN  IF ~file.readable
        THEN Outcome(reset, Raise("load"), <<>>, <<>>, None)
        ELSE IF AnalyzeRaisesInScan(trks, tpb)
        THEN Outcome(reset, Raise("ZeroDivisionError"), <<>>, <<>>, None)
        ELSE IF AnalyzeRaisesAtFirstNote(trks, tpb)
        THEN Outcome(Fields(o.velocity_percent, AnalyzedOriginalTempo(trks),
                            AnalyzedTempoChanges(trks), AnalyzedDetailedTempos(trks, tpb)),
                     Raise("ZeroDivisionError"), <<>>, <<>>, None)
        ELSE ProcessFileAnalyzed(
                 Fields(o.velocity_percent, AnalyzedOriginalTempo(trks),
                        AnalyzedTempoChanges(trks), AnalyzedDetailedTempos(trks, tpb)),
                 file, o)

\* the except branch of process_file (lines 590-610): an exception of the body
\* becomes the error dict
Caught(file, out) ==
    IF out.result.status = "raised"
    THEN [out EXCEPT !.result = ErrorResult(file.name, out.result.cause)]
    ELSE out

\* process_file without its except branch: an exception of the body leaves it
ProcessFileUncaught(self, file, o) == ProcessFileBody(self, file, o)

\* process_file(input_file, output_dir, ...): the body, and the except branch
\* that turns an exception into the error dict
ProcessFileOf(self, file, o) == Caught(file, ProcessFileBody(self, file, o))

----------------------------------------------------------------------------
(* The processing specification: process_file on one file, or               *)
(* process_directory on a directory of files, with one set of options.      *)

\* a file of the input directory: its name, whether the name ends in .mid or
\* .midi, whether mido can load it, and what it holds
File(name, is_midi, readable, tpb, trks) ==
    [name |-> name, is_midi |-> is_midi, readable |-> readable,
     ticks_per_beat |-> tpb, tracks |-> trks]

\* one note, no tempo event (120 BPM)
PlainFile ==
    File("plain.mid", TRUE, TRUE, TicksPerBeat,
         << <<NoteOn(0, 60, 0, 100), NoteOff(10, 60, 0)>> >>)
\* a set_tempo event with tempo 0
TempoZeroFile ==
    File("tempo0.mid", TRUE, TRUE, TicksPerBeat,
         << <<SetTempo(0, 0), NoteOn(0, 60, 0, 100), NoteOff(10, 60, 0)>> >>)
\* ticks_per_beat 0 in the header, a time signature and no note
ZeroDivisionFile ==
    File("tpb0.mid", TRUE, TRUE, 0, << <<TimeSignature(0)>> >>)
\* ticks_per_beat 0 in the header and a note
ZeroDivisionNoteFile ==
    File("tpb0note.mid", TRUE, TRUE, 0,
         << <<NoteOn(0, 60, 0, 100), NoteOff(10, 60, 0)>> >>)
\* a header and no track
NoTrackFile == File("notrack.mid", TRUE, TRUE, TicksPerBeat, <<>>)
\* one track without note events: a control change and a time signature
NoNoteFile ==
    File("nonote.mid", TRUE, TRUE, TicksPerBeat,
         << <<ControlChange(0, 0), TimeSignature(10)>> >>)
\* one track that is empty
EmptyTrackFile == File("emptytrack.mid", TRUE, TRUE, TicksPerBeat, << <<>> >>)
\* not a MIDI file inside: mido raises when it loads it
BrokenFile == File("broken.mid", TRUE, FALSE, TicksPerBeat, <<>>)
\* two notes of one pitch in one track, the second starts before the first ends
OverlapFile ==
    File("overlap.mid", TRUE, TRUE, TicksPerBeat,
         << <<NoteOn(0, 60, 0, 100), NoteOn(10, 60, 0, 100),
              NoteOff(10, 60, 0), NoteOff(10, 60, 0)>> >>)
\* the same two notes, one in each of two tracks
CrossTrackOverlapFile ==
    File("cross.mid", TRUE, TRUE, TicksPerBeat,
         << <<NoteOn(0, 60, 0, 100), NoteOff(20, 60, 0)>>,
            <<NoteOn(10, 60, 0, 100), NoteOff(20, 60, 0)>> >>)
\* the two notes in the first track and a note of another pitch, after them, in
\* the second
TrackOverlapFile ==
    File("intrack.mid", TRUE, TRUE, TicksPerBeat,
         << <<NoteOn(0, 60, 0, 100), NoteOn(10, 60, 0, 100),
              NoteOff(10, 60, 0), NoteOff(10, 60, 0)>>,
            <<NoteOn(40, 62, 0, 100), NoteOff(10, 62, 0)>> >>)
\* 120 BPM at tick 0 and 240 BPM from tick 10 on
MultiTempoFile ==
    File("multitempo.mid", TRUE, TRUE, TicksPerBeat,
         << <<SetTempo(0, 500000), NoteOn(0, 60, 0, 100), SetTempo(10, 250000),
              NoteOff(10, 60, 0)>> >>)
\* 80 BPM, a control change and a note of velocity 60
SlowFile ==
    File("slow.mid", TRUE, TRUE, TicksPerBeat,
         << <<SetTempo(0, 750000), ControlChange(0, 0), NoteOn(10, 60, 0, 60),
              NoteOff(10, 60, 0)>> >>)
\* a file of the directory whose name does not end in .mid or .midi
TextFile == File("notes.txt", FALSE, FALSE, TicksPerBeat, <<>>)

MidiFiles ==
    {PlainFile, TempoZeroFile, ZeroDivisionFile, ZeroDivisionNoteFile, NoTrackFile,
     NoNoteFile, EmptyTrackFile, BrokenFile, OverlapFile, CrossTrackOverlapFile,
     TrackOverlapFile, MultiTempoFile, SlowFile}

DirectoryFiles == MidiFiles \cup {TextFile}

\* at most this many files in the input directory
MaxFiles == 2

\* the target BPM values, in hundredths: 120, 120.05 and 80
TargetBpms == {12000, 12005, 8000}
VelocityPercents == {80, 100}

\* the arguments of process_file and process_directory after the two paths
Options ==
    [target_bpm : TargetBpms, remove_cc : BOOLEAN, set_velocity : BOOLEAN,
     velocity_percent : VelocityPercents, skip_matched : BOOLEAN,
     keep_original_tempo : BOOLEAN, check_overlap : BOOLEAN, fix_overlap : BOOLEAN,
     multitrack_overlap : BOOLEAN]

InitProcess ==
    /\ pc = "ready"
    /\ NoFile
    /\ Constructed
    /\ NothingReturned

\* the state a call of process_file on file leaves: midi is the file it loaded
Processed(file, out) ==
    /\ ticks_per_beat' = IF file.readable THEN file.ticks_per_beat ELSE ticks_per_beat
    /\ tracks' = IF file.readable THEN file.tracks ELSE tracks
    /\ velocity_percent' = out.fields.velocity_percent
    /\ original_tempo' = out.fields.original_tempo
    /\ tempo_changes' = out.fields.tempo_changes
    /\ detailed_tempos' = out.fields.detailed_tempos
    /\ note_positions' = out.note_positions
    /\ new_midi' = out.new_midi

\* the fields of the processor in the current state
Self == Fields(velocity_percent, original_tempo, tempo_changes, detailed_tempos)

\* self.worker = WorkerThread(self.processor, ...): the options of the window
\* become the fields of the worker
WorkerThread ==
    /\ pc = "ready"
    /\ pc' = "worker"
    /\ \E o \in Options : call' = [fn |-> "WorkerThread", files |-> <<>>, options |-> o]
    /\ UNCHANGED <<fileVars, tempoVars, time_result, extractVars, overlap_result, heap,
                   arg_notes, arg_heap, ret_notes, outputVars>>

\* result = self.processor.process_file(file_path, self.output_dir, ...)
ProcessFile ==
    /\ pc = "worker"
    /\ \E file \in MidiFiles :
          \E out \in {ProcessFileOf(Self, file, call.options)} :
              /\ call' = [call EXCEPT !.fn = "process_file", !.files = <<file>>]
              /\ Processed(file, out)
              /\ pc' = IF out.result.status = "raised" THEN "raised" ELSE "returned"
              /\ results' = IF out.result.status = "raised" THEN results
                            ELSE Append(results, out.result)
              /\ written' = written \o out.saved
    /\ UNCHANGED <<time_result, unmatched_count, overlap_result, heap, arg_notes,
                   arg_heap, ret_notes, signals>>

\* results.append(result) in the loop of process_directory; acc holds the
\* results and written files so far, the last call's outcome and the last file
\* that was processed
AppendResult(acc, file, out) ==
    [results |-> IF out.result.status = "raised" THEN acc.results
                 ELSE Append(acc.results, out.result),
     written |-> acc.written \o out.saved,
     out |-> out,
     file |-> file,
     raised |-> out.result.status = "raised"]

\* one pass of the loop of process_directory over the files of the directory:
\* a file whose name does not end in .mid or .midi is passed over, the result
\* of any other file is appended
DirectoryStep(file, o, acc) ==
    IF ~file.is_midi THEN acc
    ELSE AppendResult(acc, file, ProcessFileOf(acc.out.fields, file, o))

\* the loop of process_directory from file k on; an exception ends it
RECURSIVE DirectoryLoop(_, _, _, _)
DirectoryLoop(files, k, o, acc) ==
    IF k > Len(files) \/ acc.raised THEN acc
    ELSE DirectoryLoop(files, k + 1, o, DirectoryStep(files[k], o, acc))

\* the directories of up to MaxFiles files
Directories ==
    UNION {[1..n -> DirectoryFiles] : n \in 0..MaxFiles}

\* results = self.processor.process_directory(self.input_dir, self.output_dir, ...)
ProcessDirectory ==
    /\ pc = "worker"
    /\ \E files \in Directories :
          \E end \in {DirectoryLoop(files, 1, call.options,
                          [results |-> <<>>, written |-> <<>>,
                           out |-> Outcome(Self, Raise("none"), <<>>, note_positions,
                                           new_midi),
                           file |-> File("", FALSE, FALSE, ticks_per_beat, tracks),
                           raised |-> FALSE])} :
              /\ call' = [call EXCEPT !.fn = "process_directory", !.files = files]
              /\ Processed(end.file, end.out)
              /\ pc' = IF end.raised THEN "raised" ELSE "returned"
              /\ results' = IF end.raised THEN results ELSE end.results
              /\ written' = written \o end.written
    /\ UNCHANGED <<time_result, unmatched_count, overlap_result, heap, arg_notes,
                   arg_heap, ret_notes, signals>>

NextProcess == WorkerThread \/ ProcessFile \/ ProcessDirectory

SpecProcess == InitProcess /\ [][NextProcess]_vars

----------------------------------------------------------------------------
(* WorkerThread.run (ui.py): the worker of the window goes through a list   *)
(* of files, or hands a directory to process_directory, and emits its       *)
(* signals. The variable signals holds what was emitted, in order; a call   *)
(* of process_file is recorded in it as well, at the place where its        *)
(* output reaches update_log through the redirected sys.stdout.             *)

\* one entry of signals: the name of the signal, the position of the file it
\* is about, the total it reports and what it carries
Signal(name, current, total, payload) ==
    [signal |-> name, current |-> current, total |-> total, payload |-> payload]

\* at most this many files in the list or the directory of a run
MaxRunFiles == 3

\* the files a run is started with
RunFiles == {PlainFile, SlowFile, BrokenFile, TextFile}

\* self.files, when it is not empty
FileLists == UNION {[1..n -> RunFiles] : n \in 1..MaxRunFiles}

\* the files of self.input_dir, in the order of os.walk
RunDirectories == UNION {[1..n -> RunFiles] : n \in 0..MaxRunFiles}

\* the options of the worker: the defaults of WorkerThread.__init__, with
\* either target and skip_matched on or off
RunOptions ==
    [target_bpm : {12000, 8000}, remove_cc : {TRUE}, set_velocity : {TRUE},
     velocity_percent : {80}, skip_matched : BOOLEAN, keep_original_tempo : {FALSE},
     check_overlap : {FALSE}, fix_overlap : {FALSE}, multitrack_overlap : {FALSE}]

\* the number of update_progress signals emitted so far
Emitted == Len(SelectSeq(signals, LAMBDA s : s.signal = "update_progress"))

\* WorkerThread(self.processor, files=files, ...).start(): run takes the branch
\* of the file list (line 63)
StartFiles ==
    /\ pc = "ready"
    /\ pc' = "files"
    /\ \E files \in FileLists : \E o \in RunOptions :
          call' = [fn |-> "run", files |-> files, input_dir |-> <<>>, options |-> o]
    /\ UNCHANGED <<fileVars, tempoVars, time_result, extractVars, overlap_result, heap,
                   arg_notes, arg_heap, ret_notes, outputVars>>

\* WorkerThread(self.processor, input_dir=input_dir, ...).start(): run takes the
\* branch of the directory (line 95)
StartDirectory ==
    /\ pc = "ready"
    /\ pc' = "directory"
    /\ \E files \in RunDirectories : \E o \in RunOptions :
          call' = [fn |-> "run", files |-> <<>>, input_dir |-> files, options |-> o]
    /\ UNCHANGED <<fileVars, tempoVars, time_result, extractVars, overlap_result, heap,
                   arg_notes, arg_heap, ret_notes, outputVars>>

\* one pass of the loop over self.files (lines 64-93): process_file on the next
\* file, then the progress and the result
RunFile ==
    /\ pc = "files"
    /\ Len(results) < Len(call.files)
    /\ \E k \in {Len(results) + 1} :
          \E out \in {ProcessFileOf(Self, call.files[k], call.options)} :
              /\ Processed(call.files[k], out)
              /\ results' = Append(results, out.result)
              /\ written' = written \o out.saved
              /\ signals' = signals \o
                    <<Signal("update_log", k, Len(call.files), call.files[k].name),
                      Signal("process_file", k, Len(call.files), call.files[k].name),
                      Signal("update_progress", k, Len(call.files), None),
                      Signal("update_result", k, Len(call.files), out.result),
                      Signal("update_log", k, Len(call.files), out.result.filename)>>
    /\ UNCHANGED <<pc, call, time_result, unmatched_count, overlap_result, heap,
                   arg_notes, arg_heap, ret_notes>>

\* results = self.processor.process_directory(...) (lines 96-110): every file
\* of the directory is processed before the call returns
RunDirectory ==
    /\ pc = "directory"
    /\ pc' = "emitting"
    /\ \E end \in {DirectoryLoop(call.input_dir, 1, call.options,
                       [results |-> <<>>, written |-> <<>>,
                        out |-> Outcome(Self, Raise("none"), <<>>, note_positions,
                                        new_midi),
                        file |-> File("", FALSE, FALSE, ticks_per_beat, tracks),
                        raised |-> FALSE])} :
          /\ Processed(end.file, end.out)
          /\ results' = end.results
          /\ written' = written \o end.written
          /\ signals' = signals \o
                <<Signal("update_log", 0, Len(end.results), "input_dir")>> \o
                [k \in 1..Len(end.results) |->
                    Signal("process_file", k, Len(end.results), end.results[k].filename)]
    /\ UNCHANGED <<call, time_result, unmatched_count, overlap_result, heap,
                   arg_notes, arg_heap, ret_notes>>

\* one pass of the loop over the results of process_directory (lines 112-114)
EmitResult ==
    /\ pc = "emitting"
    /\ Emitted < Len(results)
    /\ signals' = signals \o
          <<Signal("update_progress", Emitted + 1, Len(results), None),
            Signal("update_result", Emitted + 1, Len(results), results[Emitted + 1])>>
    /\ UNCHANGED <<pc, fileVars, tempoVars, time_result, extractVars, overlap_result,
                   heap, arg_notes, arg_heap, ret_notes, call, new_midi, results, written,
                   velocity_percent>>

\* the finally block of run (lines 115-120), after either loop
Finished ==
    /\ \/ pc = "files" /\ Len(results) = Len(call.files)
       \/ pc = "emitting" /\ Emitted = Len(results)
    /\ pc' = "finished"
    /\ signals' = Append(signals, Signal("finished", Len(results), Len(results), None))
    /\ UNCHANGED <<fileVars, tempoVars, time_result, extractVars, overlap_result,
                   heap, arg_notes, arg_heap, ret_notes, call, new_midi, results, written,
                   velocity_percent>>

NextRun ==
    StartFiles \/ StartDirectory \/ RunFile \/ RunDirectory \/ EmitResult \/ Finished

SpecRun == InitProcess /\ [][NextRun]_vars

----------------------------------------------------------------------------
(* process_file with set_velocity on, over every velocity_percent of the    *)
(* spin box and every velocity of a note_on                                 *)

\* self.velocity_spinbox.setRange(1, 100)
MinVelocityPercent == 1
MaxVelocityPercent == 100

\* the velocities of a note_on that starts a note
MaxVelocity == 127

\* a file at 120 BPM with one note of the velocity
VelocityFile(velocity) ==
    File("velocity.mid", TRUE, TRUE, TicksPerBeat,
         << <<NoteOn(0, 60, 0, velocity), NoteOff(10, 60, 0)>> >>)

\* the options of a run at 120 BPM that only sets the velocity
VelocityOptions ==
    [target_bpm : {12000}, remove_cc : {FALSE}, set_velocity : {TRUE},
     velocity_percent : MinVelocityPercent..MaxVelocityPercent, skip_matched : BOOLEAN,
     keep_original_tempo : {FALSE}, check_overlap : {FALSE}, fix_overlap : {FALSE},
     multitrack_overlap : {FALSE}]

\* the worker made from the window with the velocity box checked
VelocityWorker ==
    /\ pc = "ready"
    /\ pc' = "worker"
    /\ \E o \in VelocityOptions :
          call' = [fn |-> "WorkerThread", files |-> <<>>, options |-> o]
    /\ UNCHANGED <<fileVars, tempoVars, time_result, extractVars, overlap_result, heap,
                   arg_notes, arg_heap, ret_notes, outputVars>>

\* result = self.processor.process_file(file_path, self.output_dir, ...) on a
\* file of one note
ProcessVelocityFile ==
    /\ pc = "worker"
    /\ \E velocity \in 1..MaxVelocity :
          \E out \in {ProcessFileOf(Self, VelocityFile(velocity), call.options)} :
              /\ call' = [call EXCEPT !.fn = "process_file",
                                      !.files = <<VelocityFile(velocity)>>]
              /\ Processed(VelocityFile(velocity), out)
              /\ pc' = IF out.result.status = "raised" THEN "raised" ELSE "returned"
              /\ results' = IF out.result.status = "raised" THEN results
                            ELSE Append(results, out.result)
              /\ written' = written \o out.saved
    /\ UNCHANGED <<time_result, unmatched_count, overlap_result, heap, arg_notes,
                   arg_heap, ret_notes, signals>>

NextVelocity == VelocityWorker \/ ProcessVelocityFile

SpecVelocity == InitProcess /\ [][NextVelocity]_vars

----------------------------------------------------------------------------
(* Tempo table and tick -> seconds: properties under SpecTempo.            *)

TableSorted(changes) ==
    \A i \in 1..Len(changes) - 1 : changes[i][1] <= changes[i + 1][1]

\* C9: after _analyze_tempo on any input the tempo table is non-empty, sorted by
\* tick ascending and starts at tick 0; an earliest change after tick 0 gets a
\* tick-0 entry with its tempo prepended, and a file without any tempo event
\* gets exactly [(0, 500000)].
C9_TempoTableNormalized ==
    pc \in {"analyzed", "error"} =>
        /\ tempo_changes # <<>>
        /\ TableSorted(tempo_changes)
        /\ tempo_changes[1][1] = 0
        /\ LET all == AllTempoEvents(tracks)
           IN  /\ all = <<>> => tempo_changes = << <<0, 500000>> >>
               /\ (all # <<>> /\ all[1][1] > 0) =>
                      /\ tempo_changes[1] = <<0, all[1][2]>>
                      /\ Len(tempo_changes) = Len(all) + 1

\* The same statement for the calls of _analyze_tempo that return: it holds
\* whenever no tempo event of the file carries the value 0.
TempoTableNormalizedOnReturn ==
    pc = "analyzed" =>
        /\ tempo_changes # <<>>
        /\ TableSorted(tempo_changes)
        /\ tempo_changes[1][1] = 0
        /\ LET all == AllTempoEvents(tracks)
           IN  /\ all = <<>> => tempo_changes = << <<0, 500000>> >>
               /\ (all # <<>> /\ all[1][1] > 0) =>
                      /\ tempo_changes[1] = <<0, all[1][2]>>
                      /\ Len(tempo_changes) = Len(all) + 1

\* the table of the example: changes at ticks 0, 1000, 2000
ExampleTable == << <<0, 500000>>, <<1000, 250000>>, <<2000, 1000000>> >>

\* ticks of segment i of a sorted table that lie before tick t
SegmentTicksBefore(t, changes, i) ==
    LET upto == IF i < Len(changes) /\ changes[i + 1][1] < t THEN changes[i + 1][1] ELSE t
    IN  IF upto > changes[i][1] THEN upto - changes[i][1] ELSE 0

\* sum over the segments 1..i of segment ticks * tempo: the full segments before
\* t and the partial last one
RECURSIVE SegmentSum(_, _, _)
SegmentSum(t, changes, i) ==
    IF i = 0 THEN 0
    ELSE SegmentSum(t, changes, i - 1) + SegmentTicksBefore(t, changes, i) * changes[i][2]

\* C10: with positive tempos tick -> seconds is strictly increasing (t1 < t2
\* implies seconds(t1) < seconds(t2)), for both variants of the conversion, and
\* its value is the sum over the segments before t of
\* segment_ticks * tempo_i / (ticks_per_beat * 1000000), the last one partial.
C10_TickToSecondsIncreasing ==
    pc = "analyzed" =>
        /\ \A t1, t2 \in ProbeTicks :
              t1 < t2 =>
                 /\ CalculateAbsoluteTimePrecise(t1, tempo_changes, ticks_per_beat)
                      < CalculateAbsoluteTimePrecise(t2, tempo_changes, ticks_per_beat)
                 /\ CalculateAbsoluteTime(t1, tempo_changes, ticks_per_beat)
                      < CalculateAbsoluteTime(t2, tempo_changes, ticks_per_beat)
        /\ \A t \in ProbeTicks :
              /\ CalculateAbsoluteTimePrecise(t, tempo_changes, ticks_per_beat)
                   = SegmentSum(t, tempo_changes, Len(tempo_changes))
              /\ CalculateAbsoluteTime(t, tempo_changes, ticks_per_beat)
                   = SegmentSum(t, tempo_changes, Len(tempo_changes))
        /\ time_result # <<>> =>
              /\ time_result.precise
                   = SegmentSum(time_result.ticks, tempo_changes, Len(tempo_changes))
              /\ time_result.seconds = time_result.precise

\* the example table was built from a file and tick 2100, in its third segment,
\* was converted: 1000 * 500000 + 1000 * 250000 + 100 * 1000000 units
C10_Witness ==
    /\ pc = "analyzed"
    /\ tempo_changes = ExampleTable
    /\ time_result # <<>>
    /\ time_result.ticks = 2100
    /\ time_result.precise = 850000000
    /\ time_result.seconds = 850000000

----------------------------------------------------------------------------
(* Note extraction: properties under SpecExtract.                          *)

\* the number of starts of key that are pending after the first k messages of a
\* track: a start adds one, a stop takes one away when there is one
RECURSIVE Pending(_, _, _)
Pending(track, key, k) ==
    IF k = 0 THEN 0
    ELSE LET before == Pending(track, key, k - 1)
         IN  IF NoteKey(track[k]) # key THEN before
             ELSE IF IsNoteStart(track[k]) THEN before + 1
             ELSE IF IsNoteStop(track[k]) /\ before > 0 THEN before - 1
             ELSE before

\* the ticks of the starts of key in a track, in stream order
StartTicks(track, key) ==
    LET at == IndicesWhere(Len(track),
                  LAMBDA k : NoteKey(track[k]) = key /\ IsNoteStart(track[k]))
    IN  [j \in 1..Len(at) |-> AbsoluteTick(track, at[j])]

\* the ticks of the stops of key that find a start still pending, in stream order
ClosingTicks(track, key) ==
    LET at == IndicesWhere(Len(track),
                  LAMBDA k : /\ NoteKey(track[k]) = key
                             /\ IsNoteStop(track[k])
                             /\ Pending(track, key, k - 1) > 0)
    IN  [j \in 1..Len(at) |-> AbsoluteTick(track, at[j])]

\* the extracted intervals of one track and key as <<start_tick, end_tick>>, in
\* the order of the returned list
IntervalsOf(notes, track_idx, key) ==
    LET at == IndicesWhere(Len(notes),
                  LAMBDA i : /\ notes[i].track = track_idx
                             /\ <<notes[i].note, notes[i].channel>> = key)
    IN  [j \in 1..Len(at) |-> <<notes[at[j]].start_tick, notes[at[j]].end_tick>>]

NoteKeys == {<<60, 0>>, <<62, 0>>}

\* two starts of pitch 60 at ticks 0 and 10, then two stops at ticks 20 and 30
FifoExample ==
    <<NoteOn(0, 60, 0, 100), NoteOn(10, 60, 0, 100), NoteOff(10, 60, 0), NoteOff(10, 60, 0)>>

\* C1: within a track the k-th stop of a key (note_off, or note_on with velocity
\* 0) that finds a start pending closes the k-th start of that key: the k-th
\* interval of the key runs from the k-th start to that stop.  Starts of pitch 60
\* at ticks 0 and 10 and stops at 20 and 30 give [0,20] and [10,30].
C1_FifoPairing ==
    pc = "collected" =>
        /\ \A t \in 1..Len(tracks) : \A key \in NoteKeys :
              LET got == IntervalsOf(note_positions, t - 1, key)
                  starts == StartTicks(tracks[t], key)
                  stops == ClosingTicks(tracks[t], key)
              IN  /\ Len(got) = Len(stops)
                  /\ \A k \in 1..Len(got) : got[k] = <<starts[k], stops[k]>>
        /\ tracks = <<FifoExample>> =>
              IntervalsOf(note_positions, 0, <<60, 0>>) = << <<0, 20>>, <<10, 30>> >>

\* the example stream was extracted and gave two intervals
C1_Witness ==
    /\ pc = "collected"
    /\ tracks = <<FifoExample>>
    /\ Len(note_positions) = 2
    /\ note_positions[1].start_tick = 0 /\ note_positions[1].end_tick = 20
    /\ note_positions[2].start_tick = 10 /\ note_positions[2].end_tick = 30

----------------------------------------------------------------------------
(* Overlap analyzer: properties under SpecDetect.                          *)

\* the notes of the file, extracted with 'original_track'
FileNotes == CollectMultitrackOf(tracks, tempo_changes, ticks_per_beat).notes

\* C8: the analyzer only compares notes of the same channel.  A pair of notes on
\* different channels is never recorded or counted, by detect_multitrack_overlaps
\* or by detect_midi_overlaps, and a pair of the same channel is recorded exactly
\* when a.start < b.end and b.start < a.end.
C8_SameChannelOnly ==
    (pc = "detected" /\ ~overlap_result.error) =>
        LET notes == FileNotes
            sameChannelPairs ==
                {ij \in (1..Len(notes)) \X (1..Len(notes)) :
                    /\ ij[1] < ij[2]
                    /\ notes[ij[1]].channel = notes[ij[2]].channel
                    /\ RangesOverlap(notes[ij[1]].start_seconds, notes[ij[1]].end_seconds,
                                     notes[ij[2]].start_seconds, notes[ij[2]].end_seconds)}
        IN  IF overlap_result.fn = "detect_multitrack_overlaps"
            THEN /\ \A p \in 1..Len(overlap_result.overlap_details) :
                        overlap_result.overlap_details[p].note1.channel
                            = overlap_result.overlap_details[p].note2.channel
                 /\ \A ij \in sameChannelPairs :
                        \E p \in 1..Len(overlap_result.overlap_details) :
                            /\ overlap_result.overlap_details[p].note1 = notes[ij[1]]
                            /\ overlap_result.overlap_details[p].note2 = notes[ij[2]]
                 /\ overlap_result.total_overlaps = Cardinality(sameChannelPairs)
                 /\ overlap_result.has_overlap = (sameChannelPairs # {})
            ELSE \* detect_midi_overlaps compares the notes of one track, by ticks
                 overlap_result.has_overlap =
                     (\E ij \in sameChannelPairs :
                         notes[ij[1]].track = notes[ij[2]].track)

\* What the analyzers do: every pair whose open time ranges intersect is
\* recorded, whatever the two channels.
AnalyzerRecordsEveryChannelPair ==
    (pc = "detected" /\ ~overlap_result.error
        /\ overlap_result.fn = "detect_multitrack_overlaps") =>
        LET notes == FileNotes
            pairs == {ij \in (1..Len(notes)) \X (1..Len(notes)) :
                         /\ ij[1] < ij[2]
                         /\ RangesOverlap(notes[ij[1]].start_seconds, notes[ij[1]].end_seconds,
                                          notes[ij[2]].start_seconds, notes[ij[2]].end_seconds)}
        IN  /\ overlap_result.total_overlaps = Cardinality(pairs)
            /\ overlap_result.total_overlaps
                 = overlap_result.same_track_overlaps + overlap_result.cross_track_overlaps

----------------------------------------------------------------------------
(* Overlap resolver: properties under SpecResolve.                         *)

\* note i of the caller's list as it was before the call, and returned note i
Input(i) == arg_heap[arg_notes[i]]
Output(i) == heap[ret_notes[i]]

Overlapping(a, b) ==
    a.start_seconds < b.end_seconds /\ b.start_seconds < a.end_seconds

Span(n) == <<n.note, n.start_seconds, n.end_seconds>>
Spans(h, notes) == [i \in 1..Len(notes) |-> Span(h[notes[i]])]

ResolverReturned ==
    /\ pc = "fixed"
    /\ call.fn \in {"fix_overlapping_notes", "fix_multitrack_overlapping_notes"}

TrackScoped == call.fn = "fix_multitrack_overlapping_notes" /\ ~call.fix_cross_track

\* the working list _fix_channel_overlaps hands to its first pass for the
\* caller's notes of one channel
FirstPassInput(channel) ==
    LET copied == CopyNotes(arg_heap,
                      SortByStart(arg_heap, Group(arg_heap, arg_notes, "channel", channel)))
    IN  [heap |-> copied.heap, notes |-> SortByStart(copied.heap, copied.notes)]

C3_NoResolvableOverlapRemains ==
    ResolverReturned =>
        \A i, j \in 1..Len(ret_notes) :
            (/\ i < j
             /\ Output(i).channel = Output(j).channel
             /\ TrackScoped => Output(i).original_track = Output(j).original_track)
                => ~Overlapping(Output(i), Output(j))

\* two overlapping notes of one track and channel and of different pitches were
\* passed together with a third note, and all three came back, the first one
\* ending where the second starts
C3_Witness ==
    /\ ResolverReturned
    /\ Len(arg_notes) = 3
    /\ Len(ret_notes) = 3
    /\ \E i, j \in 1..3 :
          /\ Input(i).channel = Input(j).channel
          /\ Input(i).original_track = Input(j).original_track
          /\ Input(i).note # Input(j).note
          /\ Input(i).start_seconds < Input(j).start_seconds
          /\ Overlapping(Input(i), Input(j))
          /\ \E k \in 1..3 :
                /\ Span(Output(k)) = <<Input(i).note, Input(i).start_seconds,
                                       Input(j).start_seconds>>
                /\ Output(k).end_seconds < Input(i).end_seconds

\* two notes of the same pitch and channel that lie in different tracks and
\* overlap were passed to fix_multitrack_overlapping_notes
CrossTrackPair ==
    /\ pc = "fixed"
    /\ call.fn = "fix_multitrack_overlapping_notes"
    /\ Len(arg_notes) = 2
    /\ Input(1).note = Input(2).note
    /\ Input(1).channel = Input(2).channel
    /\ Input(1).original_track # Input(2).original_track
    /\ Overlapping(Input(1), Input(2))

CrossPitchExampleReturned ==
    /\ ResolverReturned
    /\ arg_notes = <<1, 2>>
    /\ arg_heap = CrossPitchExample

\* C5 as stated: pitch 60 [0.0, 1.0005] followed by pitch 62 [1.0, 2.0] on one
\* channel: the first note is clipped to end at 1.0 and then dropped, only the
\* pitch-62 note is returned.
C5_CrossPitchExampleDropsFirst ==
    CrossPitchExampleReturned =>
        Spans(heap, ret_notes) = << <<62, Second, 2 * Second>> >>

\* C5: pitch 60 [0.0, 1.0005] followed by pitch 62 [1.0, 2.0] on one channel:
\* the first note is clipped to end at 1.0 and kept, since 1.0 s of it is left;
\* both notes are returned, [0.0, 1.0] and [1.0, 2.0].
C5_CrossPitchExampleKeepsFirst ==
    CrossPitchExampleReturned =>
        Spans(heap, ret_notes) = << <<60, 0, Second>>, <<62, Second, 2 * Second>> >>

\* the example was resolved: its first note is returned with end 1.0 and a
\* duration of 1.0 s
C5_Witness ==
    /\ CrossPitchExampleReturned
    /\ Len(ret_notes) = 2
    /\ Input(1).end_seconds = Second + Millisecond \div 2
    /\ Output(1).end_seconds = Second
    /\ Output(1).duration_seconds = Second

\* C6: the resolver never adds or moves notes.  The returned list has at most as
\* many notes as the input and every returned note corresponds to a distinct
\* input note with the same track, channel, pitch, velocity and start and an
\* end that is less than or equal to the input note's end.
C6_NeverAddsOrMoves ==
    ResolverReturned =>
        /\ Len(ret_notes) <= Len(arg_notes)
        /\ \E f \in [1..Len(ret_notes) -> 1..Len(arg_notes)] :
              /\ \A i, j \in 1..Len(ret_notes) : i # j => f[i] # f[j]
              /\ \A i \in 1..Len(ret_notes) :
                    /\ Output(i).track = Input(f[i]).track
                    /\ Output(i).original_track = Input(f[i]).original_track
                    /\ Output(i).channel = Input(f[i]).channel
                    /\ Output(i).note = Input(f[i]).note
                    /\ Output(i).velocity = Input(f[i]).velocity
                    /\ Output(i).start_seconds = Input(f[i]).start_seconds
                    /\ Output(i).start_tick = Input(f[i]).start_tick
                    /\ Output(i).end_seconds <= Input(f[i]).end_seconds

\* three notes were passed, two came back, one of them shorter than it was
C6_Witness ==
    /\ ResolverReturned
    /\ Len(arg_notes) = 3
    /\ Len(ret_notes) = 2
    /\ \E i \in 1..2, j \in 1..3 :
          /\ Output(i).note = Input(j).note
          /\ Output(i).original_track = Input(j).original_track
          /\ Output(i).channel = Input(j).channel
          /\ Output(i).start_seconds = Input(j).start_seconds
          /\ Output(i).end_seconds < Input(j).end_seconds
          /\ \A k \in 1..3 : k # j => Span(Input(k)) # Span(Input(j))

\* C7: resolution does not mutate its input.  After fix_overlapping_notes or
\* fix_multitrack_overlapping_notes returns, every note record of the caller's
\* list has the same start, end, duration and tick fields as before the call,
\* and all records that existed before the call are as they were.
C7_InputNotMutated ==
    ResolverReturned =>
        /\ \A i \in 1..Len(arg_notes) : heap[arg_notes[i]] = Input(i)
        /\ Len(arg_heap) <= Len(heap)
        /\ SubSeq(heap, 1, Len(arg_heap)) = arg_heap

\* a call has clipped one note and dropped another, and the caller's two
\* records still have their ends
C7_Witness ==
    /\ ResolverReturned
    /\ Len(arg_notes) = 2
    /\ Len(ret_notes) = 1
    /\ \E j \in 1..2 :
          /\ Output(1).start_seconds = Input(j).start_seconds
          /\ Output(1).note = Input(j).note
          /\ Output(1).end_seconds < Input(j).end_seconds
          /\ heap[arg_notes[j]].end_seconds = Input(j).end_seconds
          /\ heap[arg_notes[j]].duration_ticks = Input(j).duration_ticks
          /\ ret_notes[1] # arg_notes[j]

----------------------------------------------------------------------------
(* Round trip of the conversions: properties under SpecRoundTrip.          *)

----------------------------------------------------------------------------
(* Retimer: properties under SpecRetime.                                   *)

\* the event dicts of the new track i, sorted
NewEvents(i) == new_midi.track_events[i]

\* the absolute tick in the new file of the message written for event k of
\* track i: the running sum of the delta times up to it (the first track opens
\* with the set_tempo message)
NewTick(i, k) == AbsoluteTick(new_midi.tracks[i], k + (IF i = 1 THEN 1 ELSE 0))

Distance(a, b) == IF a < b THEN b - a ELSE a - b

\* the seconds of a tick of the new file, at the target tempo
NewSeconds(i, k) == NewTick(i, k) * call.target_tempo

\* C12: the retimer preserves each note's wall-clock position: the absolute
\* tick of every emitted note-on and note-off, converted to seconds at the
\* target tempo, is within half a tick duration of the note's start_seconds
\* and end_seconds, whatever the tempo table of the input and the target tempo.
C12_NotesKeepWallClockPosition ==
    pc = "created" =>
        /\ \A i \in 1..Len(tracks) : \A k \in 1..Len(NewEvents(i)) :
              NewEvents(i)[k].msg.type \in {"note_on", "note_off"} =>
                  2 * Distance(NewSeconds(i, k), NewEvents(i)[k].absolute_seconds)
                      <= call.target_tempo
        /\ \A n \in 1..Len(note_positions) :
              LET note == note_positions[n]
                  i == note.track + 1
              IN  /\ \E k \in 1..Len(NewEvents(i)) :
                        /\ new_midi.tracks[i][k + (IF i = 1 THEN 1 ELSE 0)].type = "note_on"
                        /\ 2 * Distance(NewSeconds(i, k), note.start_seconds)
                              <= call.target_tempo
                  /\ \E k \in 1..Len(NewEvents(i)) :
                        /\ new_midi.tracks[i][k + (IF i = 1 THEN 1 ELSE 0)].type = "note_off"
                        /\ 2 * Distance(NewSeconds(i, k), note.end_seconds)
                              <= call.target_tempo

\* a file whose tempo changes from 500000 to 250000 at tick 10 was retimed to
\* 80 BPM: its note starts after 10 ticks of 500000 and lands on tick 7 of
\* 750000, a third of a tick late
C12_Witness ==
    /\ pc = "created"
    /\ call.keep_original_tempo
    /\ call.target_tempo = 750000
    /\ tempo_changes = << <<0, 500000>>, <<10, 250000>> >>
    /\ \E n \in 1..Len(note_positions) :
          /\ note_positions[n].start_seconds = 10 * 500000
          /\ note_positions[n].end_seconds = 10 * 500000 + 10 * 250000
          /\ \E k \in 1..Len(NewEvents(1)) :
                /\ NewEvents(1)[k].msg.type = "note_on"
                /\ NewTick(1, k) = 7

\* the kept non-note event k of the new track i lies at the tick of its seconds
\* at the target tempo
AtConvertedTick(i, k) ==
    NewTick(i, k) = SecondsToTicksPrecise(NewEvents(i)[k].absolute_seconds,
                                          call.target_tempo, ticks_per_beat)

\* C13: every kept non-note event (a control-family event when control events
\* are not stripped, and any other event such as a time signature) is placed at
\* the tick obtained by converting its original seconds to ticks at the target
\* tempo.
C13_KeptEventsAtConvertedTick ==
    pc = "created" =>
        \A i \in 1..Len(tracks) : \A k \in 1..Len(NewEvents(i)) :
            NewEvents(i)[k].msg.type \notin {"note_on", "note_off"} => AtConvertedTick(i, k)

\* the part of C13 the retimer does: a kept control-family event lies at the
\* converted tick
ControlEventsAtConvertedTick ==
    pc = "created" =>
        \A i \in 1..Len(tracks) : \A k \in 1..Len(NewEvents(i)) :
            NewEvents(i)[k].msg.type \in ControlTypes => AtConvertedTick(i, k)

\* what the retimer does with the other kept events: they stay at the tick they
\* had in the input
OtherEventsKeepTheirTick ==
    pc = "created" =>
        \A i \in 1..Len(tracks) : \A k \in 1..Len(NewEvents(i)) :
            NewEvents(i)[k].msg.type = "time_signature" =>
                \E j \in 1..Len(tracks[i]) :
                    /\ tracks[i][j].type = "time_signature"
                    /\ NewTick(i, k) = AbsoluteTick(tracks[i], j)

IsNoteEvent(e) == e.msg.type \in {"note_on", "note_off"}

\* event e of track i was made for the interval n of note_positions
MadeFor(e, i, n) ==
    LET note == note_positions[n]
    IN  /\ note.track = i - 1
        /\ e.msg.note = note.note
        /\ e.msg.channel = note.channel
        /\ \/ e.msg.type = "note_on" /\ e.absolute_seconds = note.start_seconds
           \/ e.msg.type = "note_off" /\ e.absolute_seconds = note.end_seconds

\* two events of track i at one tick come in the order the retimer appended
\* them: a kept non-note event before a note event, the events of an earlier
\* interval before those of a later one, a note-on before its note-off
TieInOrder(i, k, l) ==
    LET a == NewEvents(i)[k]
        b == NewEvents(i)[l]
    IN  /\ ~(IsNoteEvent(a) /\ ~IsNoteEvent(b))
        /\ (IsNoteEvent(a) /\ IsNoteEvent(b)) =>
              \E n \in 1..Len(note_positions) : \E mm \in n..Len(note_positions) :
                  /\ MadeFor(a, i, n)
                  /\ MadeFor(b, i, mm)
                  /\ n = mm => (a.msg.type = "note_on" /\ b.msg.type = "note_off")

\* C14: in every track of the new file the events are ordered by their new
\* absolute tick (at one tick: kept non-note events, then notes in interval
\* order, a note-on before its note-off), every delta time is >= 0, the first
\* delta is the first event's absolute tick, and the running sum of the deltas
\* at every event is that event's new absolute tick.
C14_OrderedWithNonNegativeDeltas ==
    pc = "created" =>
        \A i \in 1..Len(tracks) :
            /\ Len(new_midi.tracks[i]) = Len(NewEvents(i)) + (IF i = 1 THEN 1 ELSE 0)
            /\ \A j \in 1..Len(new_midi.tracks[i]) : new_midi.tracks[i][j].time >= 0
            /\ i = 1 => new_midi.tracks[i][1] = SetTempo(0, call.target_tempo)
            /\ NewEvents(i) # <<>> =>
                  new_midi.tracks[i][IF i = 1 THEN 2 ELSE 1].time
                      = NewEvents(i)[1].absolute_ticks
            /\ \A k \in 1..Len(NewEvents(i)) :
                  /\ NewTick(i, k) = NewEvents(i)[k].absolute_ticks
                  /\ \A l \in (k + 1)..Len(NewEvents(i)) :
                        /\ NewTick(i, k) <= NewTick(i, l)
                        /\ NewTick(i, k) = NewTick(i, l) => TieInOrder(i, k, l)

\* a control change that followed a note-off at one tick in the input comes
\* before it in the new track, both at a tick greater than the note-on's
C14_Witness ==
    /\ pc = "created"
    /\ Len(tracks) = 1
    /\ \E k \in 1..Len(NewEvents(1)) :
          /\ k > 1
          /\ k < Len(NewEvents(1))
          /\ NewEvents(1)[k].msg.type = "control_change"
          /\ NewEvents(1)[k + 1].msg.type = "note_off"
          /\ NewEvents(1)[k - 1].msg.type = "note_on"
          /\ NewTick(1, k) = NewTick(1, k + 1)
          /\ NewTick(1, k) > NewTick(1, k - 1)
          /\ \E j \in 1..Len(tracks[1]) - 1 :
                /\ tracks[1][j].type = "note_off"
                /\ tracks[1][j + 1].type = "control_change"

----------------------------------------------------------------------------
(* Unmatched note starts: properties under SpecExtract.                    *)

\* the number of note starts in the messages of the tracks t..
RECURSIVE NoteStartCount(_, _)
NoteStartCount(trks, t) ==
    IF t > Len(trks) THEN 0
    ELSE Cardinality({k \in 1..Len(trks[t]) : IsNoteStart(trks[t][k])})
            + NoteStartCount(trks, t + 1)

\* the number of note stops in the messages of the tracks t..
RECURSIVE NoteStopCount(_, _)
NoteStopCount(trks, t) ==
    IF t > Len(trks) THEN 0
    ELSE Cardinality({k \in 1..Len(trks[t]) : IsNoteStop(trks[t][k])})
            + NoteStopCount(trks, t + 1)

\* the note starts of the file that no stop closed: every interval used one
UnmatchedStarts == NoteStartCount(tracks, 1) - Len(note_positions)

\* C15: note starts without a stop are not fatal and are counted: they are
\* absent from the interval set, the extraction completes without an error, and
\* the unmatched count it reports is the total over all tracks, not that of the
\* last track only.
C15_UnmatchedCountedOverAllTracks ==
    /\ pc = "error" => NoteStartCount(tracks, 1) = 0
    /\ pc = "collected" =>
          /\ Len(note_positions) <= NoteStopCount(tracks, 1)
          /\ unmatched_count = UnmatchedStarts

\* the part of C15 both extractors do: a file with note starts is extracted
\* without an error and every interval has a stop of its own
UnmatchedStartsNotFatal ==
    /\ pc = "error" => NoteStartCount(tracks, 1) = 0
    /\ pc = "collected" =>
          /\ Len(note_positions) <= NoteStopCount(tracks, 1)
          /\ UnmatchedStarts >= 0

\* what the two extractors report: collect_multitrack_note_positions the total,
\* _collect_note_positions the unmatched starts of the last track
UnmatchedCountIsTotalOrLastTrack ==
    pc = "collected" =>
        \/ unmatched_count = UnmatchedStarts
        \/ unmatched_count =
              PendingCount(ScanTrack(tracks[Len(tracks)], Len(tracks) - 1, tempo_changes,
                                     ticks_per_beat, FALSE, 1, EmptyDict, <<>>).active)

----------------------------------------------------------------------------
(* process_file and process_directory: properties under SpecProcess.       *)

\* the files the call processed: the MIDI files among call.files, in order
Inputs == SelectSeq(call.files, LAMBDA f : f.is_midi)

\* the call has returned a result for each of its input files
HasReturned == pc = "returned" /\ Len(results) = Len(Inputs)

\* the output files written under the name of the input file i
WrittenFor(i) == {w \in 1..Len(written) : written[w].path = Inputs[i].name}

\* the file carries a set_tempo event with a tempo <= 0
HasNonPositiveTempo(file) ==
    \E t \in 1..Len(file.tracks) : \E k \in 1..Len(file.tracks[t]) :
        file.tracks[t][k].type = "set_tempo" /\ file.tracks[t][k].tempo <= 0

\* mido can load the file, its ticks_per_beat is positive and so is every tempo
WellFormed(file) ==
    file.readable /\ file.ticks_per_beat > 0 /\ ~HasNonPositiveTempo(file)

\* C16: a tempo <= 0 in the input is corrected to 500000 in the tempo table and
\* the processing completes without an error result.
C16_NonPositiveTempoCorrected ==
    HasReturned =>
        \A i \in 1..Len(Inputs) :
            (Inputs[i].readable /\ Inputs[i].ticks_per_beat > 0
                /\ HasNonPositiveTempo(Inputs[i])) =>
                /\ results[i].status # "error"
                /\ i = Len(Inputs) =>
                      /\ tempo_changes # <<>>
                      /\ \A c \in 1..Len(tempo_changes) : tempo_changes[c][2] > 0

\* what process_file does with such a file: the analysis divides by the tempo,
\* the result is the error dict and the table stays empty
NonPositiveTempoFails ==
    HasReturned =>
        \A i \in 1..Len(Inputs) :
            (Inputs[i].readable /\ Inputs[i].ticks_per_beat > 0
                /\ HasNonPositiveTempo(Inputs[i])) =>
                /\ results[i].status = "error"
                /\ results[i].cause = "ZeroDivisionError"
                /\ WrittenFor(i) = {}
                /\ i = Len(Inputs) => tempo_changes = <<>>

\* C17: a ticks-per-beat value <= 0 is rejected as malformed: process_file
\* returns a failure result with the file name and the cause and writes no
\* output, and the batch continues.
C17_BadTicksPerBeatRejected ==
    /\ pc # "raised"
    /\ HasReturned =>
          \A i \in 1..Len(Inputs) :
              (Inputs[i].readable /\ Inputs[i].ticks_per_beat <= 0) =>
                  /\ results[i].status = "error"
                  /\ results[i].filename = Inputs[i].name
                  /\ results[i].cause # ""
                  /\ WrittenFor(i) = {}

\* the file has no note_on and no note_off message
HasNoNoteMessage(file) ==
    \A t \in 1..Len(file.tracks) : \A k \in 1..Len(file.tracks[t]) :
        file.tracks[t][k].type \notin {"note_on", "note_off"}

\* the written file w has no note event, be it a saved file or a copy
WithoutNoteEvents(w) ==
    \A t \in 1..Len(written[w].tracks) : \A k \in 1..Len(written[w].tracks[t]) :
        written[w].tracks[t][k].type \notin {"note_on", "note_off"}

\* C18: an empty input is valid: a file without notes (tracks without note
\* events, or no track at all) gives a non-error result with note_count 0, and
\* any output written for it has no note event.
C18_EmptyInputValid ==
    HasReturned =>
        \A i \in 1..Len(Inputs) :
            (WellFormed(Inputs[i]) /\ HasNoNoteMessage(Inputs[i])) =>
                /\ results[i].status # "error"
                /\ results[i].note_count = 0
                /\ \A w \in WrittenFor(i) : WithoutNoteEvents(w)

\* the part of C18 that holds: the same for a file with at least one track
EmptyTracksValid ==
    HasReturned =>
        \A i \in 1..Len(Inputs) :
            (WellFormed(Inputs[i]) /\ HasNoNoteMessage(Inputs[i])
                /\ Inputs[i].tracks # <<>>) =>
                /\ results[i].status # "error"
                /\ results[i].note_count = 0
                /\ \A w \in WrittenFor(i) : WithoutNoteEvents(w)

\* a file without a track: the unmatched count of _collect_note_positions reads
\* a name the loop over the tracks never bound
NoTrackFails ==
    HasReturned =>
        \A i \in 1..Len(Inputs) :
            (WellFormed(Inputs[i]) /\ Inputs[i].tracks = <<>>) =>
                /\ results[i].status = "error"
                /\ results[i].cause = "UnboundLocalError"

\* what process_file gives for the input file i on a processor just made
Alone(i) == ProcessFileOf(NewProcessor, Inputs[i], call.options)

\* the files the calls for the input files i.. write, one after the other
RECURSIVE SavedAlone(_)
SavedAlone(i) == IF i > Len(Inputs) THEN <<>> ELSE Alone(i).saved \o SavedAlone(i + 1)

\* C19: per-file failures are isolated: process_file never lets an exception
\* out, a failure gives a result whose status is the error text, with an empty
\* path and note_count 0; process_directory returns exactly one result for
\* every MIDI file, and the files after a failing file are processed as if it
\* had not been there.
C19_FailuresIsolated ==
    /\ pc # "raised"
    /\ pc = "returned" =>
          /\ Len(results) = Len(Inputs)
          /\ \A i \in 1..Len(Inputs) :
                /\ results[i].filename = Inputs[i].name
                /\ results[i].status = "error" =>
                      /\ results[i].path = ""
                      /\ results[i].note_count = 0
                      /\ results[i].cause # ""
                /\ results[i] = Alone(i).result
          /\ written = SavedAlone(1)

\* a directory of a file mido cannot load and a file with one note: the first
\* result is the error dict, the second file was retimed and saved
C19_Witness ==
    /\ pc = "returned"
    /\ call.fn = "process_directory"
    /\ call.files = <<BrokenFile, PlainFile>>
    /\ Len(results) = 2
    /\ results[1].status = "error"
    /\ results[1].cause = "load"
    /\ results[2].status = "success"
    /\ results[2].note_count = 1
    /\ Len(written) = 1
    /\ written[1].path = "plain.mid"

\* the extracted notes of the file, with the track each came from
NotesOf(file) ==
    CollectMultitrackOf(file.tracks, AnalyzedTempoChanges(file.tracks),
                        file.ticks_per_beat).notes

\* the file has an overlap that the options ask to fix: two of its notes share
\* time, and lie in one track when the file has notes in several tracks and
\* cross-track fixing is off
OverlapToFix(file, o) ==
    LET notes == NotesOf(file)
    IN  \E i \in 1..Len(notes) : \E j \in (i + 1)..Len(notes) :
            /\ notes[i].start_seconds < notes[j].end_seconds
            /\ notes[j].start_seconds < notes[i].end_seconds
            /\ (HasMultipleNoteTracks(file.tracks) /\ ~o.multitrack_overlap)
                  => notes[i].original_track = notes[j].original_track

\* the tempo of the file is one value, within 0.1 BPM of the target
TempoEqualsTarget(file, o) ==
    /\ ~HasMultipleTempos(AnalyzedTempoChanges(file.tracks))
    /\ WithinTenthBpm(TempoToBpm(AnalyzedOriginalTempo(file.tracks)), o.target_bpm)

\* the skip rule applies to the file: skip_matched is set, the tempo equals the
\* target and no control event is to be stripped
SkipRuleApplies(file, o) ==
    /\ WellFormed(file)
    /\ o.skip_matched
    /\ TempoEqualsTarget(file, o)
    /\ ~(o.remove_cc /\ HasCcMessages(file.tracks))

\* what the skip rule asks of the result of input file i
SkipRuleObeyed(i) ==
    IF /\ call.options.check_overlap
       /\ call.options.fix_overlap
       /\ OverlapToFix(Inputs[i], call.options)
    THEN /\ WrittenFor(i) # {}
         /\ results[i].path # ""
    ELSE /\ WrittenFor(i) = {}
         /\ results[i].path = ""
         /\ results[i].status \in {"not_needed", "detect_only"}

\* C20: the skip rule: with skip_matched set, the original tempo equal to the
\* target within 0.1 BPM and no control events to strip, no output is written
\* and the status is a not-processed one, unless overlap fixing is requested
\* (check_overlap and fix_overlap) and overlaps are found, in which case an
\* output is written.
C20_SkipRule ==
    HasReturned =>
        \A i \in 1..Len(Inputs) :
            SkipRuleApplies(Inputs[i], call.options) => SkipRuleObeyed(i)

\* the skip rule holds for every file that has at least one track
SkipRuleWithTracks ==
    HasReturned =>
        \A i \in 1..Len(Inputs) :
            (SkipRuleApplies(Inputs[i], call.options) /\ Inputs[i].tracks # <<>>)
                => SkipRuleObeyed(i)

\* what process_file gives for the input file i on a processor just made when
\* target_bpm is b and every other option is as in the call
WithTargetBpm(i, b) ==
    ProcessFileOf(NewProcessor, Inputs[i], [call.options EXCEPT !.target_bpm = b])

\* bpm_matches of input file i for the target b
MatchesTarget(i, b) ==
    /\ ~HasMultipleTempos(AnalyzedTempoChanges(Inputs[i].tracks))
    /\ WithinTenthBpm(OriginalBpm(AnalyzedOriginalTempo(Inputs[i].tracks)), b)

\* C21: target_bpm is ignored when the tempo conversion is off: two runs of
\* process_file on one file that differ only in target_bpm and have
\* keep_original_tempo = False return the same result dict (status fields,
\* path) and write the same output.
C21_TargetBpmIgnored ==
    (HasReturned /\ ~call.options.keep_original_tempo) =>
        \A i \in 1..Len(Inputs) : \A b \in TargetBpms :
            /\ results[i] = WithTargetBpm(i, b).result
            /\ Alone(i).saved = WithTargetBpm(i, b).saved

\* what holds of it: with the conversion off target_bpm acts through
\* bpm_matches only, so two targets that both match the tempo of the file, or
\* both do not, give the same result and output
TargetBpmActsThroughBpmMatches ==
    (HasReturned /\ ~call.options.keep_original_tempo) =>
        \A i \in 1..Len(Inputs) : \A b \in TargetBpms :
            (Inputs[i].readable /\ Inputs[i].ticks_per_beat > 0
                /\ ~HasNonPositiveTempo(Inputs[i])
                /\ MatchesTarget(i, b) = MatchesTarget(i, call.options.target_bpm)) =>
                /\ results[i] = WithTargetBpm(i, b).result
                /\ Alone(i).saved = WithTargetBpm(i, b).saved

\* no two notes of the file share time, whatever their tracks
HasNoOverlap(file) ==
    LET notes == NotesOf(file)
    IN  \A i \in 1..Len(notes) : \A j \in (i + 1)..Len(notes) :
            ~(/\ notes[i].start_seconds < notes[j].end_seconds
              /\ notes[j].start_seconds < notes[i].end_seconds)

\* the file is already what the options ask for: its one tempo equals the
\* target, it has no control event and no overlap
AlreadyCorrect(file, o) ==
    /\ WellFormed(file)
    /\ TempoEqualsTarget(file, o)
    /\ ~HasCcMessages(file.tracks)
    /\ HasNoOverlap(file)

\* the call reports input file i as skipped: nothing written, no path, a status
\* of the not-processed kind
Skipped(i) ==
    /\ WrittenFor(i) = {}
    /\ results[i].path = ""
    /\ results[i].status \in {"not_needed", "detect_only"}

\* the call wrote one file for input file i, with the tracks of the input
WrittenAsRead(i) ==
    /\ results[i].path = Inputs[i].name
    /\ Cardinality(WrittenFor(i)) >= 1
    /\ \A w \in WrittenFor(i) : written[w].tracks = Inputs[i].tracks

\* C22: skip-matching idempotence: with the conversion on, a file already at
\* the target tempo, without control events and overlaps, is reported as
\* skipped (no output) by every run with skip_matched set, the second like the
\* first; and a run with skip_matched off writes an output whose tracks are
\* those of the input.
C22_SkipIdempotence ==
    (HasReturned /\ call.options.keep_original_tempo) =>
        \A i \in 1..Len(Inputs) :
            AlreadyCorrect(Inputs[i], call.options) =>
                IF call.options.skip_matched THEN Skipped(i) ELSE WrittenAsRead(i)

\* what holds of it: the same for a file with at least one track, and, for the
\* forced run, when no velocity is to be changed
SkipIdempotenceWithTracks ==
    (HasReturned /\ call.options.keep_original_tempo) =>
        \A i \in 1..Len(Inputs) :
            (AlreadyCorrect(Inputs[i], call.options) /\ Inputs[i].tracks # <<>>) =>
                IF call.options.skip_matched THEN Skipped(i)
                ELSE ~NeedsVelocityChange(Inputs[i].tracks, call.options.set_velocity,
                                          call.options.velocity_percent)
                        => WrittenAsRead(i)

\* the forced run on a file with tracks whose velocities are to be changed
\* writes other tracks than it read
ForcedRunChangesVelocity ==
    (HasReturned /\ call.options.keep_original_tempo /\ ~call.options.skip_matched) =>
        \A i \in 1..Len(Inputs) :
            (AlreadyCorrect(Inputs[i], call.options) /\ Inputs[i].tracks # <<>>
                /\ NeedsVelocityChange(Inputs[i].tracks, call.options.set_velocity,
                                       call.options.velocity_percent)) =>
                /\ results[i].status = "success"
                /\ \A w \in WrittenFor(i) : written[w].tracks # Inputs[i].tracks

----------------------------------------------------------------------------
(* WorkerThread.run: properties under SpecRun.                              *)

\* the positions in signals of the entries named name
Positions(name) == {p \in 1..Len(signals) : signals[p].signal = name}

\* the values the update_progress signals reported, in order
ProgressValues ==
    LET progress == SelectSeq(signals, LAMBDA s : s.signal = "update_progress")
    IN  [k \in 1..Len(progress) |-> progress[k].current]

\* the progress update for file i comes after file i was processed, and file
\* i + 1 is processed only after it
ProgressAfterEachFile ==
    /\ \A p \in Positions("update_progress") :
          \E q \in Positions("process_file") :
              q < p /\ signals[q].current = signals[p].current
    /\ \A q \in Positions("process_file") :
          signals[q].current > 1 =>
              \E p \in Positions("update_progress") :
                  p < q /\ signals[p].current = signals[q].current - 1

\* the values reported so far are 1, 2, ... in order, and at the end of the
\* run there is one for every file that was processed
ProgressCountsUp ==
    /\ ProgressValues = [k \in 1..Len(ProgressValues) |-> k]
    /\ pc = "finished" => Len(ProgressValues) = Cardinality(Positions("process_file"))

\* C23: progress is reported after each file: the progress update for file i is
\* emitted after file i was processed and before file i + 1 is, whether the
\* run was started with a list of files or with a directory, and the values
\* reported are 1..n in order.
C23_ProgressAfterEachFile == ProgressAfterEachFile /\ ProgressCountsUp

\* what holds of it for a list of files
ListProgressAfterEachFile ==
    (pc # "ready" /\ call.files # <<>>) => ProgressAfterEachFile /\ ProgressCountsUp

\* what holds of it for a directory: the values are 1..n in order, and every
\* one of them is emitted after the last file was processed
DirectoryProgressAfterAllFiles ==
    (pc # "ready" /\ call.files = <<>>) =>
        /\ ProgressCountsUp
        /\ \A p \in Positions("update_progress") : \A q \in Positions("process_file") :
              q < p

----------------------------------------------------------------------------
(* _fix_different_note_overlaps: properties under SpecChannel               *)

\* the second pass has returned
SecondPassReturned == pc = "fixed" /\ call.fn = "_fix_different_note_overlaps"

\* the second pass moved the end of the note
ClippedInSecondPass(id) == heap[id].end_seconds # arg_heap[id].end_seconds

\* the note is not in the list the second pass returned
DroppedInSecondPass(id) == \A k \in 1..Len(ret_notes) : ret_notes[k] # id

\* the note of the list that follows position k and starts where the note at
\* k now ends
ClippedToLaterStart(k) ==
    \E l \in (k + 1)..Len(arg_notes) :
        /\ heap[arg_notes[l]].note # heap[arg_notes[k]].note
        /\ heap[arg_notes[k]].end_seconds = heap[arg_notes[l]].start_seconds

IsMultiTempo(file) ==
    WellFormed(file) /\ HasMultipleTempos(AnalyzedTempoChanges(file.tracks))

\* the tempo values of the set_tempo messages of the written file w, one per
\* message
WrittenTempos(w) ==
    LET trks == written[w].tracks
    IN  Concat([t \in 1..Len(trks) |->
                   LET tempo_msgs == SelectSeq(trks[t], LAMBDA msg : msg.type = "set_tempo")
                   IN  [k \in 1..Len(tempo_msgs) |-> tempo_msgs[k].tempo]])

\* the call wrote a file for input file i whose only set_tempo message carries
\* the tempo of the target
WrittenAtTarget(i) ==
    /\ results[i].path = Inputs[i].name
    /\ WrittenFor(i) # {}
    /\ \A w \in WrittenFor(i) :
          WrittenTempos(w) = <<BpmToTempo(call.options.target_bpm)>>

\* C25: with the conversion on, a file with several tempo values is always
\* written, and the output has one tempo, that of the target, even when the
\* first tempo of the file equals the target and skip_matched is set.
C25_MultiTempoAlwaysConverted ==
    (HasReturned /\ call.options.keep_original_tempo) =>
        \A i \in 1..Len(Inputs) : IsMultiTempo(Inputs[i]) => WrittenAtTarget(i)

\* what holds of it: the same when the first tempo of the file is 0.1 BPM or
\* more away from the target
MultiTempoConvertedWhenFirstTempoDiffers ==
    (HasReturned /\ call.options.keep_original_tempo) =>
        \A i \in 1..Len(Inputs) :
            (IsMultiTempo(Inputs[i])
                /\ NeedsBpmConversion(AnalyzedOriginalTempo(Inputs[i].tracks), TRUE,
                                      call.options.target_bpm)) => WrittenAtTarget(i)

\* and when the first tempo equals the target, the file is written at the
\* target only if the result says so; otherwise nothing is written, or the
\* input is copied with all its tempos
MultiTempoAtFirstTempoLeftAlone ==
    (HasReturned /\ call.options.keep_original_tempo) =>
        \A i \in 1..Len(Inputs) :
            (IsMultiTempo(Inputs[i])
                /\ ~NeedsBpmConversion(AnalyzedOriginalTempo(Inputs[i].tracks), TRUE,
                                       call.options.target_bpm)) =>
                CASE results[i].status = "success" -> WrittenAtTarget(i)
                  [] results[i].status = "processed_forced" ->
                        /\ ~call.options.skip_matched
                        /\ \A w \in WrittenFor(i) :
                              written[w].copied /\ written[w].tracks = Inputs[i].tracks
                  [] OTHER ->
                        /\ call.options.skip_matched
                        /\ results[i].status \in {"not_needed", "detect_only"}
                        /\ WrittenFor(i) = {}

\* the open range of the caller's note i meets that of no other note of its
\* channel
IsolatedInChannel(i) ==
    \A j \in 1..Len(arg_notes) :
        (j # i /\ Input(j).channel = Input(i).channel) => ~Overlapping(Input(i), Input(j))

\* the returned list holds a note equal to the caller's note i
ReturnedUnchanged(i) == \E k \in 1..Len(ret_notes) : Output(k) = Input(i)

\* C26: a note whose open range meets no other note of its channel is returned
\* by the resolver with the start and end it had, in the global and in the
\* track-scoped mode, whatever its duration, 1 ms or less included.
C26_IsolatedNoteUnchanged ==
    ResolverReturned =>
        \A i \in 1..Len(arg_notes) : IsolatedInChannel(i) => ReturnedUnchanged(i)

\* the caller's notes the resolver handles together with note i: those of its
\* channel, and of its track as well in the track-scoped mode
GroupOf(i) ==
    {j \in 1..Len(arg_notes) :
        /\ Input(j).channel = Input(i).channel
        /\ TrackScoped => Input(j).original_track = Input(i).original_track}

\* note j ends before note i starts or starts after it ends, and does not start
\* with it
Apart(i, j) ==
    \/ Input(i).end_seconds <= Input(j).start_seconds
    \/ /\ Input(j).end_seconds <= Input(i).start_seconds
       /\ Input(j).start_seconds < Input(i).start_seconds

\* what holds of it: a note longer than 1 ms is returned unchanged when every
\* other note of its group is apart from it (an empty note of its pitch that
\* starts with it is not: the first pass clips the note to its own start)
ApartLongNoteUnchanged ==
    ResolverReturned =>
        \A i \in 1..Len(arg_notes) :
            (/\ Input(i).duration_seconds > Millisecond
             /\ \A j \in GroupOf(i) : j # i => Apart(i, j))
                => ReturnedUnchanged(i)

\* a note of 1 ms or less is not returned, isolated or not, unless it is the
\* only note of its track and channel in the track-scoped mode
ShortNoteDroppedUnlessAlone ==
    ResolverReturned =>
        \A i \in 1..Len(arg_notes) :
            Input(i).duration_seconds <= Millisecond =>
                (ReturnedUnchanged(i) <=> (TrackScoped /\ GroupOf(i) = {i}))

\* the note_on messages of a track that start a note, without their times
NoteStartsOf(track) ==
    {<<track[k].note, track[k].channel, track[k].velocity>> :
        k \in {j \in 1..Len(track) : track[j].type = "note_on" /\ track[j].velocity > 0}}

\* the number of control messages of the type and channel in the track
ControlCount(track, type, channel) ==
    Cardinality({k \in 1..Len(track) :
                    track[k].type = type /\ track[k].channel = channel})

\* every note_on of the written file w has the velocity of a note_on of the
\* same pitch and channel in the same track of input file i
VelocitiesAsRead(i, w) ==
    /\ Len(written[w].tracks) = Len(Inputs[i].tracks)
    /\ \A t \in 1..Len(written[w].tracks) :
          NoteStartsOf(written[w].tracks[t]) \subseteq NoteStartsOf(Inputs[i].tracks[t])

\* every control message of input file i is in the same track of the written
\* file w
ControlsAsRead(i, w) ==
    /\ Len(written[w].tracks) = Len(Inputs[i].tracks)
    /\ \A t \in 1..Len(Inputs[i].tracks) : \A k \in 1..Len(Inputs[i].tracks[t]) :
          LET msg == Inputs[i].tracks[t][k]
          IN  msg.type \in ControlTypes =>
                 ControlCount(written[w].tracks[t], msg.type, msg.channel)
                     = ControlCount(Inputs[i].tracks[t], msg.type, msg.channel)

\* C27: the reported classification matches the written output: when
\* process_file writes a file and reports the velocity status as not processed,
\* every note_on of the output has the velocity read from the input; when it
\* reports the control status as not processed, every control event of the
\* input is in the output; on the path of a matching file as well.
C27_StatusMatchesOutput ==
    HasReturned =>
        \A i \in 1..Len(Inputs) : \A w \in WrittenFor(i) :
            /\ results[i].velocity_status = "not_processed" => VelocitiesAsRead(i, w)
            /\ results[i].cc_status = "not_processed" => ControlsAsRead(i, w)

\* what holds of it: the control half
ControlStatusMatchesOutput ==
    HasReturned =>
        \A i \in 1..Len(Inputs) : \A w \in WrittenFor(i) :
            results[i].cc_status = "not_processed" => ControlsAsRead(i, w)

\* and the velocity half when set_velocity is off or the file was not saved by
\* the path of a matching file
VelocityStatusMatchesOutputOffSkipPath ==
    HasReturned =>
        \A i \in 1..Len(Inputs) : \A w \in WrittenFor(i) :
            (/\ results[i].velocity_status = "not_processed"
             /\ ~call.options.set_velocity \/ results[i].status # "processed_overlap")
                => VelocitiesAsRead(i, w)

\* the path of a matching file saved a file with changed velocities and
\* reported the velocity status as not processed
SkipPathChangesVelocityUnreported ==
    HasReturned =>
        \A i \in 1..Len(Inputs) : \A w \in WrittenFor(i) :
            (/\ results[i].status = "processed_overlap"
             /\ results[i].velocity_status = "not_processed"
             /\ call.options.set_velocity)
                => ~VelocitiesAsRead(i, w)

----------------------------------------------------------------------------
(* the velocity tests of process_file: properties under SpecVelocity        *)

\* the verdict of the test behind the velocity status: no note_on is more than
\* 3 away from min(127, max(1, int(127 * velocity_percent / 100)))
StatusTestMatches(i) ==
    AllNotesMatchVelocity(Inputs[i].tracks, call.options.velocity_percent)

\* the verdict of the test behind the decision to write: needs_velocity_change
\* is False
OutputTestMatches(i) ==
    ~NeedsVelocityChange(Inputs[i].tracks, call.options.set_velocity,
                         call.options.velocity_percent)

\* every note_on of every file written for input file i has the velocity
WrittenVelocityIs(i, velocity) ==
    \A w \in WrittenFor(i) : \A t \in 1..Len(written[w].tracks) :
        \A n \in NoteStartsOf(written[w].tracks[t]) : n[3] = velocity

\* C28: the two velocity tests of process_file agree for every velocity_percent
\* of 1..100 and every note velocity of 1..127: the test behind the velocity
\* status and needs_velocity_change give the same verdict, so a file reported
\* as needing no velocity change is not rewritten for its velocity; and the
\* target of the status test is the velocity written when set_velocity is on.
C28_VelocityTestsAgree ==
    (HasReturned /\ call.options.set_velocity) =>
        \A i \in 1..Len(Inputs) :
            /\ StatusTestMatches(i) <=> OutputTestMatches(i)
            /\ ~call.options.skip_matched =>
                  (results[i].velocity_status = "not_needed"
                      <=> results[i].status = "processed_forced")
            /\ results[i].status = "success" =>
                  WrittenVelocityIs(i, VelocityValue(call.options.velocity_percent))

\* what holds of it: the velocity written is the target of the status test
WrittenVelocityIsStatusTarget ==
    (HasReturned /\ call.options.set_velocity) =>
        \A i \in 1..Len(Inputs) :
            results[i].status = "success" =>
                /\ WrittenFor(i) # {}
                /\ WrittenVelocityIs(i, VelocityValue(call.options.velocity_percent))

\* and the two tests agree when int(127 * p / 100) = int(128 * p / 100)
VelocityTestsAgreeOnEqualTargets ==
    (HasReturned /\ call.options.set_velocity) =>
        \A i \in 1..Len(Inputs) :
            (127 * call.options.velocity_percent) \div 100
                    = (128 * call.options.velocity_percent) \div 100
                => /\ StatusTestMatches(i) <=> OutputTestMatches(i)
                   /\ ~call.options.skip_matched =>
                         (results[i].velocity_status = "not_needed"
                             <=> results[i].status = "processed_forced")

----------------------------------------------------------------------------
(* Balance of the new tracks: properties under SpecRetime                   *)

\* the (pitch, channel) pairs of the note messages of a track
NoteKeysOf(track) ==
    {<<track[k].note, track[k].channel>> :
        k \in {j \in 1..Len(track) : track[j].type \in {"note_on", "note_off"}}}

\* the number of messages of the type and (pitch, channel) among the first j
\* messages of a track
NoteMessageCount(track, j, type, key) ==
    Cardinality({k \in 1..j : /\ track[k].type = type
                              /\ track[k].note = key[1]
                              /\ track[k].channel = key[2]})

\* the number of intervals of the list in track i (from 1) with the (pitch,
\* channel)
IntervalCount(notes, i, key) ==
    Cardinality({n \in 1..Len(notes) : /\ notes[n].track = i - 1
                                       /\ notes[n].note = key[1]
                                       /\ notes[n].channel = key[2]})

\* the intervals _collect_note_positions finds in the new file
ReExtracted ==
    CollectNotePositionsOf(new_midi.tracks, AnalyzedTempoChanges(new_midi.tracks),
                           new_midi.ticks_per_beat)

\* C29: every track of the new file is balanced: for each (pitch, channel) it
\* holds one note_on and one note_off per interval of note_positions in that
\* track and no other note message (so nothing of the input's unmatched starts
\* and orphan stops), every note_on starts a note, no note_off comes before
\* its note_on (in every prefix of the track the note_offs of a pair do not
\* outnumber its note_ons), and extracting the intervals of the new file again
\* gives as many per track and (pitch, channel) as were passed in, with no
\* start left unmatched.
C29_OutputTracksBalanced ==
    pc = "created" =>
        /\ Len(new_midi.tracks) = Len(tracks)
        /\ \A i \in 1..Len(tracks) :
              LET out == new_midi.tracks[i]
              IN  /\ \A key \in NoteKeysOf(out) \cup NoteKeysOf(tracks[i]) :
                        /\ NoteMessageCount(out, Len(out), "note_on", key)
                              = IntervalCount(note_positions, i, key)
                        /\ NoteMessageCount(out, Len(out), "note_off", key)
                              = IntervalCount(note_positions, i, key)
                        /\ \A j \in 1..Len(out) :
                              NoteMessageCount(out, j, "note_off", key)
                                  <= NoteMessageCount(out, j, "note_on", key)
                        /\ IntervalCount(ReExtracted.notes, i, key)
                              = IntervalCount(note_positions, i, key)
                  /\ \A k \in 1..Len(out) : out[k].type = "note_on" => out[k].velocity > 0
        /\ ReExtracted.unmatched = 0
        /\ Len(ReExtracted.notes) = Len(note_positions)

\* the input had an orphan note_off, a pair and an unmatched note_on, and the
\* new track holds one note_on followed by one note_off
OrphanAndUnmatchedLeftOut ==
    /\ pc = "created"
    /\ Len(tracks) = 1
    /\ Len(tracks[1]) = 4
    /\ tracks[1][1].type = "note_off"
    /\ tracks[1][2].type = "note_on"
    /\ tracks[1][3].type = "note_off"
    /\ tracks[1][4].type = "note_on"
    /\ unmatched_count = 1
    /\ Len(note_positions) = 1
    /\ Len(new_midi.tracks[1]) = 3
    /\ new_midi.tracks[1][2].type = "note_on"
    /\ new_midi.tracks[1][3].type = "note_off"
    /\ new_midi.tracks[1][3].time > 0

----------------------------------------------------------------------------
(* The overlap-fix decision of the two paths: properties under SpecProcess  *)

\* the file has notes in several tracks, some of its notes overlap, and every
\* two notes that overlap lie in different tracks
OnlyCrossTrackOverlaps(file) ==
    /\ WellFormed(file)
    /\ HasMultipleNoteTracks(file.tracks)
    /\ ~HasNoOverlap(file)
    /\ LET notes == NotesOf(file)
       IN  \A i \in 1..Len(notes) : \A j \in (i + 1)..Len(notes) :
               (/\ notes[i].start_seconds < notes[j].end_seconds
                /\ notes[j].start_seconds < notes[i].end_seconds)
                   => notes[i].original_track # notes[j].original_track

\* the options ask for no tempo, control or velocity change of the file
NoOtherChangeNeeded(file, o) ==
    /\ ~NeedsBpmConversion(AnalyzedOriginalTempo(file.tracks), o.keep_original_tempo,
                           o.target_bpm)
    /\ ~(o.remove_cc /\ HasCcMessages(file.tracks))
    /\ ~NeedsVelocityChange(file.tracks, o.set_velocity, o.velocity_percent)
    /\ o.set_velocity => AllNotesMatchVelocity(file.tracks, o.velocity_percent)

\* the call asks for track-scoped fixing
TrackScopedFixing ==
    /\ call.options.check_overlap
    /\ call.options.fix_overlap
    /\ ~call.options.multitrack_overlap

\* C30: the overlap-fix decision is the same on both paths of process_file:
\* with track-scoped fixing asked for on a file with notes in several tracks
\* whose only overlaps are between tracks, the fix status says that nothing
\* needs fixing, and when no tempo, control or velocity change is needed either
\* (and skip_matched is set, so that nothing is forced), no output is written,
\* on the path of a matching file and on the other path alike.
C30_SameDecisionOnBothPaths ==
    (HasReturned /\ TrackScopedFixing) =>
        \A i \in 1..Len(Inputs) :
            OnlyCrossTrackOverlaps(Inputs[i]) =>
                /\ results[i].fix_overlap_status
                       \in {"not_needed", "not_needed_no_track_overlap"}
                /\ (call.options.skip_matched
                        /\ NoOtherChangeNeeded(Inputs[i], call.options))
                      => (WrittenFor(i) = {} /\ results[i].path = "")

\* what holds of it: the fix status on both paths, and no output on the path of
\* a matching file
CrossTrackOnlyNotWrittenWhenMatching ==
    (HasReturned /\ TrackScopedFixing) =>
        \A i \in 1..Len(Inputs) :
            OnlyCrossTrackOverlaps(Inputs[i]) =>
                /\ results[i].fix_overlap_status
                       \in {"not_needed", "not_needed_no_track_overlap"}
                /\ (/\ call.options.skip_matched
                    /\ NoOtherChangeNeeded(Inputs[i], call.options)
                    /\ TempoEqualsTarget(Inputs[i], call.options))
                      => (WrittenFor(i) = {} /\ results[i].path = "")

\* the note messages of a track without their velocities
NoteTimes(track) ==
    LET note_msgs == SelectSeq(track, LAMBDA msg : msg.type \in {"note_on", "note_off"})
    IN  [k \in 1..Len(note_msgs) |->
            <<note_msgs[k].type, note_msgs[k].time, note_msgs[k].note,
              note_msgs[k].channel>>]

\* and on the other path the file is written, its notes where they were
CrossTrackOnlyWrittenOtherwise ==
    (HasReturned /\ TrackScopedFixing) =>
        \A i \in 1..Len(Inputs) :
            (/\ OnlyCrossTrackOverlaps(Inputs[i])
             /\ call.options.skip_matched
             /\ NoOtherChangeNeeded(Inputs[i], call.options)
             /\ ~TempoEqualsTarget(Inputs[i], call.options))
                => /\ results[i].status = "success"
                   /\ results[i].fix_overlap_status = "not_needed_no_track_overlap"
                   /\ results[i].path = Inputs[i].name
                   /\ \A w \in WrittenFor(i) :
                         \A t \in 1..Len(Inputs[i].tracks) :
                             NoteTimes(written[w].tracks[t]) = NoteTimes(Inputs[i].tracks[t])

====
